---- MODULE Spec2Model ----
(***************************************************************************)
(* Model of the IoT ingestion pipeline of src/iot/mqtt_data_manager.py     *)
(* (class IoTDataManager): the MQTT on-message callback feeding a bounded  *)
(* queue, the worker loop that drains it, the validator, the alert rules,  *)
(* the SQLite store (sensor_data and alerts tables), the exporters and the *)
(* retention sweep.                                                        *)
(*                                                                         *)
(* Numbers.  Sensor values are floats in the source.  The model keeps them *)
(* as integers counted in tenths (25.0 is 250, 5.5 is 55), which is exact  *)
(* for every threshold of the source.  Time is counted in whole hours of   *)
(* UTC; a day is 24 of them.  A quality score valid/total is kept as the   *)
(* pair <<valid, total>>.                                                  *)
(***************************************************************************)
EXTENDS Integers, Sequences, FiniteSets, TLC

(***************************************************************************)
(* JSON values as the validator sees them after json.loads.                *)
(*   num  : a JSON number, v tenths                                        *)
(*   str  : a JSON string that float() parses, to v tenths                 *)
(*   text : a JSON string that float() rejects (ValueError)                *)
(*   bool : JSON true/false, v is 1 or 0; float(True) is 1.0               *)
(*   nan  : the NaN literal json.loads accepts                             *)
(*   null : JSON null, or the key is absent (dict.get gives None)          *)
(***************************************************************************)
Null == [kind |-> "null", v |-> 0]
Num(x) == [kind |-> "num", v |-> x]
Str(x) == [kind |-> "str", v |-> x]
Text == [kind |-> "text", v |-> 0]
Bool(b) == [kind |-> "bool", v |-> b]
NaN == [kind |-> "nan", v |-> 0]

\* The field names in the order of the ranges dict.
RangeFields ==
    <<"temperature", "humidity", "soil_moisture", "ph_level",
      "light_intensity", "battery_level", "signal_strength">>

FieldSet == {RangeFields[i] : i \in 1..Len(RangeFields)}

\* ranges, in tenths: field -> <<min_val, max_val>>.
ranges ==
    [f \in FieldSet |->
        CASE f = "temperature" -> <<-500, 600>>
          [] f = "humidity" -> <<0, 1000>>
          [] f = "soil_moisture" -> <<0, 1000>>
          [] f = "ph_level" -> <<0, 140>>
          [] f = "light_intensity" -> <<0, 20000>>
          [] f = "battery_level" -> <<0, 1000>>
          [] f = "signal_strength" -> <<-1200, 0>>]

\* float(value): the result, or error for a value float() raises on.
FloatOf(value) ==
    CASE value.kind = "num" -> [ok |-> TRUE, nan |-> FALSE, v |-> value.v]
      [] value.kind = "str" -> [ok |-> TRUE, nan |-> FALSE, v |-> value.v]
      [] value.kind = "bool" -> [ok |-> TRUE, nan |-> FALSE, v |-> 10 * value.v]
      [] value.kind = "nan" -> [ok |-> TRUE, nan |-> TRUE, v |-> 0]
      [] OTHER -> [ok |-> FALSE, nan |-> FALSE, v |-> 0]

\* One pass of the validation loop: the validated value of a field.
ValidateFieldExclusive(field, value) ==
    IF value.kind = "null" THEN Null
    ELSE LET fl == FloatOf(value) IN
         IF ~fl.ok THEN Null
         ELSE IF ~fl.nan /\ ranges[field][1] < fl.v /\ fl.v < ranges[field][2]
              THEN Num(fl.v) ELSE Null

ValidateFieldClamp(field, value) ==
    IF value.kind = "null" THEN Null
    ELSE LET fl == FloatOf(value) IN
         IF ~fl.ok \/ fl.nan THEN Null
         ELSE IF fl.v < ranges[field][1] THEN Num(ranges[field][1])
         ELSE IF fl.v > ranges[field][2] THEN Num(ranges[field][2])
         ELSE Num(fl.v)

ValidateField(field, value) ==
    IF value.kind = "null" THEN Null
    ELSE LET fl == FloatOf(value) IN
         IF ~fl.ok THEN Null
         ELSE IF ~fl.nan /\ ranges[field][1] <= fl.v /\ fl.v <= ranges[field][2]
              THEN Num(fl.v) ELSE Null

\* The location part: data['location'] when it is a dict, else no location.
NoLocation == [isdict |-> FALSE, lat |-> Null, lon |-> Null]
Location(la, lo) == [isdict |-> TRUE, lat |-> la, lon |-> lo]

ValidatedKeys == FieldSet \cup {"latitude", "longitude"}

validate_sensor_data_seven(data) ==
    LET values ==
            [k \in ValidatedKeys |->
                IF k \in FieldSet THEN ValidateField(k, data.fields[k])
                ELSE IF ~data.location.isdict THEN Null
                ELSE IF k = "latitude" THEN data.location.lat
                ELSE data.location.lon]
        valid_count == Cardinality({k \in ValidatedKeys : values[k].kind # "null"})
        total_count == Cardinality(FieldSet)
    IN [values |-> values,
        data_quality |-> IF total_count > 0 THEN <<valid_count, total_count>>
                         ELSE <<0, 1>>]

\* _validate_sensor_data: data is [fields : FieldSet -> value, location].
\* The result is the validated dict: values holds the nine entries present
\* when the score is computed, data_quality is <<valid_count, total_count>>.
validate_sensor_data(data) ==
    LET values ==
            [k \in ValidatedKeys |->
                IF k \in FieldSet THEN ValidateField(k, data.fields[k])
                ELSE IF ~data.location.isdict THEN Null
                ELSE IF k = "latitude" THEN data.location.lat
                ELSE data.location.lon]
        valid_count == Cardinality({k \in ValidatedKeys : values[k].kind # "null"})
        total_count == Cardinality(ValidatedKeys)
    IN [values |-> values,
        data_quality |-> IF total_count > 0 THEN <<valid_count, total_count>>
                         ELSE <<0, 1>>]

(***************************************************************************)
(* The alert rules of _check_alert_conditions.  An alert is the pair       *)
(* (severity, message) of the source; the message is kept as its literal   *)
(* text and the value formatted into it.                                   *)
(***************************************************************************)
Alert(sev, txt, val) == [severity |-> sev, text |-> txt, value |-> val]

TemperatureAlertsNoLow(temp) ==
    IF temp.kind = "null" THEN <<>>
    ELSE IF temp.v > 400
         THEN <<Alert("critical", "Critically high temperature", temp.v)>>
    ELSE IF temp.v < 100 \/ temp.v > 350
         THEN <<Alert("warning", "Temperature out of optimal range", temp.v)>>
    ELSE <<>>

TemperatureAlerts(temp) ==
    IF temp.kind = "null" THEN <<>>
    ELSE IF temp.v < 50
         THEN <<Alert("critical", "Critically low temperature", temp.v)>>
    ELSE IF temp.v > 400
         THEN <<Alert("critical", "Critically high temperature", temp.v)>>
    ELSE IF temp.v < 100 \/ temp.v > 350
         THEN <<Alert("warning", "Temperature out of optimal range", temp.v)>>
    ELSE <<>>

MoistureAlerts(moisture) ==
    IF moisture.kind = "null" THEN <<>>
    ELSE IF moisture.v < 200
         THEN <<Alert("critical", "Critical low soil moisture", moisture.v)>>
    ELSE IF moisture.v < 300
         THEN <<Alert("warning", "Low soil moisture", moisture.v)>>
    ELSE IF moisture.v > 800
         THEN <<Alert("warning", "High soil moisture", moisture.v)>>
    ELSE <<>>

PhAlerts(ph) ==
    IF ph.kind = "null" THEN <<>>
    ELSE IF ph.v < 55 \/ ph.v > 80
         THEN <<Alert("warning", "pH level out of optimal range", ph.v)>>
    ELSE <<>>

BatteryAlerts(battery) ==
    IF battery.kind = "null" THEN <<>>
    ELSE IF battery.v < 100
         THEN <<Alert("critical", "Critical low battery", battery.v)>>
    ELSE IF battery.v < 200
         THEN <<Alert("warning", "Low battery", battery.v)>>
    ELSE <<>>

check_alert_conditions_first(values) ==
    IF TemperatureAlerts(values["temperature"]) # <<>>
    THEN TemperatureAlerts(values["temperature"])
    ELSE IF MoistureAlerts(values["soil_moisture"]) # <<>>
    THEN MoistureAlerts(values["soil_moisture"])
    ELSE IF PhAlerts(values["ph_level"]) # <<>>
    THEN PhAlerts(values["ph_level"])
    ELSE BatteryAlerts(values["battery_level"])

\* The alerts list _check_alert_conditions builds before it stores it.
\* values is the validated dict (sensor_data.get(field) of the source).
check_alert_conditions(values) ==
    TemperatureAlerts(values["temperature"])
    \o MoistureAlerts(values["soil_moisture"])
    \o PhAlerts(values["ph_level"])
    \o BatteryAlerts(values["battery_level"])

(***************************************************************************)
(* Bounds of the model and values of the configuration.                    *)
(***************************************************************************)
\* queue.Queue(maxsize=1000) in the source; the model runs a smaller queue.
QueueMaxSize == 2
\* How many messages the transport delivers in one run.
MaxMessages == 3
\* How many store operations may fail (raise) in one run.
MaxFailures == 1
\* How many direct calls of the manager's methods one run makes.
MaxCalls == 4
\* How many rows of each table an earlier run has left in the store.
MaxSeedRows == 2
\* How many messages are delivered to the pipeline that runs up to the export.
MaxDeliveries == 1
\* How many times the broker answers a connection attempt in one run.
MaxConnects == 2
\* How many hours pass in one run.
MaxHours == 1
\* The host's offset from UTC is one of -MaxTz, 0, +MaxTz hours.
MaxTz == 5
\* config['csv_update_interval'] and config['processing_interval'], in
\* seconds (the defaults).
csv_update_interval == 10
processing_interval == 1
\* config['data_retention_days'] (default).
data_retention_days == 30
\* An SQLite day, in the hours the model counts time in.
HoursPerDay == 24
\* LIMIT of the CSV query and of get_active_alerts.
CsvLimit == 1000
ActiveAlertsLimit == 20
\* The UTC hour at which a run starts.
StartHour == 1000

VARIABLES
    mainPc,         \* the caller of start/stop: "init", "started", "failed",
                    \* "stopping", "stopped"; inside get_statistics "records",
                    \* "devices", "alerts" (the COUNT it runs next)
    netLoop,        \* TRUE while the transport's loop thread delivers callbacks
    running,        \* self.running
    mainStats,      \* get_statistics in the caller's thread: the counts it has
                    \* read so far, and the dict it returned last
    session,        \* the MQTT session: whether it is up, the result code of
                    \* the last CONNACK, the topic patterns subscribed
    others,         \* how many threads run _data_processing_loop besides the
                    \* one wPc follows
    data_queue,     \* self.data_queue, a sequence of messages
    stats,          \* self.stats: messages_received, messages_processed,
                    \* connection_status
    cbPc,           \* _on_message: "idle" or "put" (full() was false, put is next)
    cbMsg,          \* the input _on_message is handling
    wPc,            \* the worker: "idle", "while", "process", "alert", "empty",
                    \* "gate", "cleanup", "stopped"
    wMsg,           \* message, the local of the drain loop
    wDevice,        \* device_id of the message in process
    wSensor,        \* sensor_data, the validated dict of the message in process
    wAlerts,        \* alerts, the list _check_alert_conditions built
    wIdx,           \* the position of "for severity, message in alerts"
    sinceExport,    \* time.time() - last_csv_update in seconds, capped
    sensor_data,    \* the sensor_data table, a set of rows
    alerts,         \* the alerts table, a set of rows
    seqReading,     \* sqlite_sequence of sensor_data (AUTOINCREMENT)
    seqAlert,       \* sqlite_sequence of alerts
    now,            \* the UTC time, in hours
    tz,             \* the host's offset from UTC: datetime.now() is now + tz
    csv_file,       \* the CSV export: "none" or the exported rows
    json_file,      \* the JSON export: "none" or the snapshot
    cleanup_logged, \* the count the last sweep logged (0: it logged nothing)
    delivered,      \* messages the transport has handed to _on_message
    env,            \* what the environment may still do: messages to deliver,
                    \* CONNACKs to receive, store operations that raise,
                    \* direct calls, hours, further calls of start
    hist            \* observations of the run, read by the properties only

vars ==
    <<mainPc, netLoop, running, mainStats, session, others, data_queue, stats, cbPc, cbMsg, wPc,
      wMsg,
      wDevice, wSensor, wAlerts, wIdx, sinceExport, sensor_data, alerts, seqReading, seqAlert,
      now, tz, csv_file, json_file, cleanup_logged, delivered, env, hist>>

lifeVars == <<mainPc, netLoop, running, mainStats, session, others>>
cbVars == <<cbPc, cbMsg>>
workerVars == <<wPc, wMsg, wDevice, wSensor, wAlerts, wIdx>>
storeVars == <<sensor_data, alerts, seqReading, seqAlert>>
fileVars == <<csv_file, json_file>>
clockVars == <<now, tz>>

Min(a, b) == IF a < b THEN a ELSE b

\* datetime.now(): the host's local time, without a zone.
LocalNow == now + tz
\* SQLite's datetime('now') and CURRENT_TIMESTAMP: UTC.
SqlNow == now

\* Whether a store operation may raise here.
Outcomes == IF env.faults > 0 THEN {TRUE, FALSE} ELSE {TRUE}
Fault == [env EXCEPT !.faults = @ - 1, !.faulted = TRUE]
\* The environment after a call out of the budget e that went well or raised.
After(e, ok) == IF ok THEN e ELSE [e EXCEPT !.faults = @ - 1, !.faulted = TRUE]
\* The budget left after a direct call of one of the manager's methods.
Called == [env EXCEPT !.calls = @ - 1]

\* config['mqtt_topics'] of the sample configuration.
Topics == {"agri/sensors/+/data", "agri/devices/+/status"}
\* The result codes of a CONNACK: accepted, and refused (not authorised).
ConnackCodes == {0, 5}
NoStatistics == [total_records |-> 0, unique_devices |-> 0]
NoSession == [up |-> FALSE, rc |-> 0 - 1, subscribed |-> {}]
\* The session once the broker has accepted it and _on_connect has run.
SessionUp == [up |-> TRUE, rc |-> 0, subscribed |-> Topics]

(***************************************************************************)
(* Messages.  A topic is the sequence of its segments.  A payload is the   *)
(* decoded text, kept as what json.loads makes of it: json is "object"     *)
(* (a dict, data), "array" (valid JSON that is no dict) or "invalid"       *)
(* (JSONDecodeError).                                                      *)
(***************************************************************************)
NoFields == [f \in FieldSet |-> Null]
Object(fields, location) ==
    [json |-> "object", data |-> [fields |-> fields, location |-> location]]
InvalidJson ==
    [json |-> "invalid", data |-> [fields |-> NoFields, location |-> NoLocation]]
JsonArray ==
    [json |-> "array", data |-> [fields |-> NoFields, location |-> NoLocation]]

\* json.loads(message['payload']) followed by the first data.get(...).
json_loads(payload) ==
    CASE payload.json = "object" -> [ok |-> TRUE, error |-> "none", data |-> payload.data]
      [] payload.json = "array" -> [ok |-> FALSE, error |-> "AttributeError", data |-> payload.data]
      [] OTHER -> [ok |-> FALSE, error |-> "JSONDecodeError", data |-> payload.data]

\* topic_parts[2] if len(topic_parts) > 2 else 'unknown'
DeviceId(topic) == IF Len(topic) > 2 THEN topic[3] ELSE "unknown"

TopicDev1 == <<"agri", "sensors", "dev1", "data">>
TopicDev2 == <<"agri", "sensors", "dev2", "data">>

\* temperature=2, humidity=50, soil_moisture=40, ph_level=6.5
PayloadDev1 ==
    Object([NoFields EXCEPT !["temperature"] = Num(20), !["humidity"] = Num(500),
                            !["soil_moisture"] = Num(400), !["ph_level"] = Num(65)],
           NoLocation)
\* temperature=45, battery_level=5, location {lat: 12.5, lon: 77.5}
PayloadHot ==
    Object([NoFields EXCEPT !["temperature"] = Num(450), !["battery_level"] = Num(50)],
           Location(Num(125), Num(775)))

\* temperature=25, soil_moisture=50, ph_level=7, battery_level=90
PayloadCalm ==
    Object([NoFields EXCEPT !["temperature"] = Num(250), !["soil_moisture"] = Num(500),
                            !["ph_level"] = Num(70), !["battery_level"] = Num(900)],
           NoLocation)
\* temperature=45, soil_moisture=15, ph_level=9, battery_level=15
PayloadAllBad ==
    Object([NoFields EXCEPT !["temperature"] = Num(450), !["soil_moisture"] = Num(150),
                            !["ph_level"] = Num(90), !["battery_level"] = Num(150)],
           NoLocation)

\* What the transport delivers in a run of the whole system.
Inputs ==
    { [topic |-> TopicDev1, payload |-> PayloadDev1],
      [topic |-> TopicDev2, payload |-> PayloadHot],
      [topic |-> TopicDev1, payload |-> InvalidJson] }

NoMsg == [n |-> 0, topic |-> <<>>, payload |-> InvalidJson, timestamp |-> 0]
NoSensor == [values |-> [k \in ValidatedKeys |-> Null], data_quality |-> <<0, 1>>]

Ns(q) == [i \in 1..Len(q) |-> q[i].n]

(***************************************************************************)
(* The store.  A row of sensor_data and a row of alerts; msg is the        *)
(* arrival number of the message the row came from (history only).         *)
(***************************************************************************)
ReadingRow(id, message, device_id, sensor) ==
    [id |-> id, timestamp |-> message.timestamp, device_id |-> device_id,
     values |-> sensor.values, data_quality |-> sensor.data_quality,
     raw_json |-> message.payload, msg |-> message.n]

\* INSERT INTO alerts (device_id, alert_type, severity, message): timestamp
\* and acknowledged take their column defaults.
AlertRow(id, device_id, alert, n) ==
    [id |-> id, timestamp |-> SqlNow, device_id |-> device_id,
     alert_type |-> "sensor_threshold", severity |-> alert.severity,
     message |-> [text |-> alert.text, value |-> alert.value],
     acknowledged |-> FALSE, msg |-> n]

\* UPDATE alerts SET acknowledged = 1 WHERE id = ?
AcknowledgeAll(table, alert_id) ==
    {[r EXCEPT !.acknowledged = TRUE] : r \in table}
AcknowledgeToggle(table, alert_id) ==
    {IF r.id = alert_id THEN [r EXCEPT !.acknowledged = ~r.acknowledged] ELSE r
        : r \in table}
AcknowledgeUpdate(table, alert_id) ==
    {IF r.id = alert_id THEN [r EXCEPT !.acknowledged = TRUE] ELSE r : r \in table}

\* The rows a query with ORDER BY timestamp DESC LIMIT limit may return:
\* every set of the newest rows, ties at the cut broken either way.
Newest(rows, limit) ==
    IF Cardinality(rows) <= limit THEN {rows}
    ELSE {S \in SUBSET rows :
            /\ Cardinality(S) = limit
            /\ \A r \in S, q \in rows \ S : r.timestamp >= q.timestamp}

\* SELECT * FROM alerts WHERE acknowledged = 0 ORDER BY timestamp DESC LIMIT 20
ActiveAlerts(table) ==
    Newest({r \in table : ~r.acknowledged}, ActiveAlertsLimit)

\* datetime('now', '-{} days'.format(retention_days))
RetentionCutoff == SqlNow - HoursPerDay * data_retention_days

\* DELETE FROM <table> WHERE timestamp < datetime('now', '-N days')
Sweep(table) == {r \in table : ~(r.timestamp < RetentionCutoff)}

\* The CSV query: WHERE timestamp > datetime('now', '-1 day') ... LIMIT 1000
CsvRows == Newest({r \in sensor_data : r.timestamp > SqlNow - HoursPerDay}, CsvLimit)

\* The JSON query: WHERE timestamp > datetime('now', '-1 hour') GROUP BY
\* device_id with MAX(timestamp): per device one row of the newest timestamp.
RecentRows == {r \in sensor_data : r.timestamp > SqlNow - 1}
LatestPerDevice ==
    {S \in SUBSET RecentRows :
        /\ \A r \in RecentRows : \E q \in S : q.device_id = r.device_id
        /\ \A r, q \in S : r.device_id = q.device_id => r = q
        /\ \A r \in S, q \in RecentRows :
              q.device_id = r.device_id => q.timestamp <= r.timestamp}

\* row[i] if row[i] is not None else float('nan')
OrNaN(value) == IF value.kind = "null" THEN NaN ELSE value

\* One entry of matlab_data['devices'].
DeviceData(row) ==
    [device_id |-> row.device_id,
     temperature |-> OrNaN(row.values["temperature"]),
     humidity |-> OrNaN(row.values["humidity"]),
     soil_moisture |-> OrNaN(row.values["soil_moisture"]),
     ph |-> OrNaN(row.values["ph_level"]),
     light_intensity |-> OrNaN(row.values["light_intensity"]),
     latitude |-> OrNaN(row.values["latitude"]),
     longitude |-> OrNaN(row.values["longitude"]),
     data_quality |-> row.data_quality]

NoCsv == [written |-> FALSE, rows |-> {}]
NoJson == [written |-> FALSE, timestamp |-> 0, devices |-> {}]

(***************************************************************************)
(* The state after IoTDataManager.__init__ on a fresh database file.       *)
(***************************************************************************)
NoHist ==
    [accepted |-> <<>>,     \* arrival numbers put into the queue, in order
     dropped |-> {},        \* arrival numbers dropped on a full queue
     taken |-> <<>>,        \* arrival numbers the worker took out, in order
     drainStart |-> <<>>,   \* the queue when the current tick's drain started
     tickTaken |-> <<>>,    \* what the current tick's drain has taken out
     acked |-> {},          \* alerts an acknowledge_alert call has updated
     reacked |-> {},        \* alerts acknowledged again after that
     activeResult |-> {},   \* what the last get_active_alerts call returned
     ackedAtQuery |-> {},   \* acked, when that call was made
     exportSaw |-> {},      \* the messages whose readings were in the store
                            \* when the last export ran
     exportAt |-> 0,        \* the hour of the last export
     batch |-> <<>>]        \* the messages queued when the run began

\* What every run starts from, whatever the store holds and the host is.
InitCommon ==
    /\ cbPc = "idle"
    /\ cbMsg = NoMsg
    /\ wMsg = NoMsg
    /\ wDevice = "unknown"
    /\ wSensor = NoSensor
    /\ wAlerts = <<>>
    /\ wIdx = 1
    /\ sinceExport = 0
    /\ now = StartHour
    /\ csv_file = NoCsv
    /\ json_file = NoJson
    /\ cleanup_logged = 0

\* The manager is constructed and not started.
InitNotStarted ==
    /\ mainPc = "init"
    /\ netLoop = FALSE
    /\ running = FALSE
    /\ wPc = "idle"
    /\ data_queue = <<>>
    /\ session = NoSession
    /\ mainStats = NoStatistics
    /\ others = 0
    /\ stats = [messages_received |-> 0, messages_processed |-> 0,
                connection_status |-> "disconnected"]
    /\ delivered = 0
    /\ hist = NoHist

\* A fresh database file.
InitEmptyStore ==
    /\ sensor_data = {}
    /\ alerts = {}
    /\ seqReading = 0
    /\ seqAlert = 0

\* The offsets from UTC a host may run at.
TzOffsets == {0 - MaxTz, 0, MaxTz}

NoEnv == [messages |-> 0, faults |-> 0, faulted |-> FALSE, calls |-> 0, hours |-> 0,
          connects |-> 0, starts |-> 0]

\* The whole system on a host at UTC whose store does not fail.
Init ==
    /\ InitCommon
    /\ InitNotStarted
    /\ InitEmptyStore
    /\ tz = 0
    /\ env = [NoEnv EXCEPT !.messages = MaxMessages, !.connects = 1]

(***************************************************************************)
(* start_mqtt_client and stop_mqtt_client.                                 *)
(***************************************************************************)
\* connect() either returns or raises.  On success the transport loop and
\* the worker thread are started.
StartMqttClientMarksFailed ==
    /\ mainPc = "init"
    /\ \E connected \in BOOLEAN :
        IF connected
        THEN /\ mainPc' = "started"
             /\ netLoop' = TRUE
             /\ running' = TRUE
             /\ wPc' = "while"
             /\ sinceExport' = 0
             /\ stats' = stats
        ELSE /\ mainPc' = "failed"
             /\ stats' = [stats EXCEPT !.connection_status = "failed"]
             /\ UNCHANGED <<netLoop, running, wPc, sinceExport>>
    /\ UNCHANGED <<mainStats, others, session, data_queue, cbVars, wMsg, wDevice,
                   wSensor, wAlerts, wIdx, storeVars, clockVars, fileVars,
                   cleanup_logged, delivered, env, hist>>

StartMqttClient ==
    /\ mainPc = "init"
    /\ \E connected \in BOOLEAN :
        IF connected
        THEN /\ mainPc' = "started"
             /\ netLoop' = TRUE
             /\ running' = TRUE
             /\ wPc' = "while"
             /\ sinceExport' = 0
        ELSE /\ mainPc' = "failed"
             /\ UNCHANGED <<netLoop, running, wPc, sinceExport>>
    /\ UNCHANGED <<mainStats, others, session, data_queue, stats, cbVars, wMsg, wDevice, wSensor, wAlerts, wIdx,
                   storeVars, clockVars, fileVars, cleanup_logged, delivered,
                   env, hist>>

\* self.running = False
StopFlag ==
    /\ mainPc = "started"
    /\ mainPc' = "stopping"
    /\ running' = FALSE
    /\ UNCHANGED <<netLoop, mainStats, others, session, data_queue, stats, cbVars, workerVars, sinceExport,
                   storeVars, clockVars, fileVars, cleanup_logged, delivered,
                   env, hist>>

\* loop_stop() waits for the transport thread, which ends its callback first;
\* disconnect() closes the session, and with the loop stopped no callback
\* reports it; join(timeout=5) returns whether or not the worker has ended.
StopJoin ==
    /\ mainPc = "stopping"
    /\ cbPc = "idle"
    /\ mainPc' = "stopped"
    /\ netLoop' = FALSE
    /\ session' = [session EXCEPT !.up = FALSE, !.subscribed = {}]
    /\ UNCHANGED <<running, mainStats, others, data_queue, stats, cbVars, workerVars, sinceExport,
                   storeVars, clockVars, fileVars, cleanup_logged, delivered,
                   env, hist>>

(***************************************************************************)
(* _on_connect and _on_disconnect, in the transport's thread.              *)
(***************************************************************************)
\* for topic in self.config['mqtt_topics']: client.subscribe(topic)
SubscribeFirstOnly == {CHOOSE t \in Topics : TRUE}
SubscribeAll == Topics

\* The broker answers a connection attempt (the first, or one the loop made
\* after the session went down) with the result code rc.
OnConnect ==
    /\ netLoop
    /\ cbPc = "idle"
    /\ ~session.up
    /\ env.connects > 0
    /\ env' = [env EXCEPT !.connects = @ - 1]
    /\ \E rc \in ConnackCodes :
         IF rc = 0
         THEN /\ stats' = [stats EXCEPT !.connection_status = "connected"]
              /\ session' = [up |-> TRUE, rc |-> rc, subscribed |-> SubscribeAll]
         ELSE /\ stats' = [stats EXCEPT !.connection_status = "failed"]
              /\ session' = [up |-> FALSE, rc |-> rc, subscribed |-> {}]
    /\ UNCHANGED <<mainPc, netLoop, running, mainStats, others, data_queue, cbVars, workerVars,
                   sinceExport, storeVars, clockVars, fileVars, cleanup_logged,
                   delivered, hist>>

\* The session goes down while the loop runs.
OnDisconnectFatal ==
    /\ netLoop
    /\ cbPc = "idle"
    /\ session.up
    /\ stats' = [stats EXCEPT !.connection_status = "disconnected"]
    /\ session' = [session EXCEPT !.up = FALSE, !.subscribed = {}]
    /\ running' = FALSE
    /\ UNCHANGED <<mainPc, netLoop, mainStats, others, data_queue, cbVars, workerVars,
                   sinceExport, storeVars, clockVars, fileVars, cleanup_logged,
                   delivered, env, hist>>

OnDisconnect ==
    /\ netLoop
    /\ cbPc = "idle"
    /\ session.up
    /\ stats' = [stats EXCEPT !.connection_status = "disconnected"]
    /\ session' = [session EXCEPT !.up = FALSE, !.subscribed = {}]
    /\ UNCHANGED <<mainPc, netLoop, running, mainStats, others, data_queue, cbVars, workerVars,
                   sinceExport, storeVars, clockVars, fileVars, cleanup_logged,
                   delivered, env, hist>>

(***************************************************************************)
(* _on_message, in the transport's thread.                                 *)
(***************************************************************************)
\* self.data_queue.full()
FullOffByOne(q) == Len(q) > QueueMaxSize
Full(q) == Len(q) >= QueueMaxSize

\* Decode, count, test full(): drop, or go on to put.
OnMessageCountsQueued ==
    /\ netLoop
    /\ session.up
    /\ cbPc = "idle"
    /\ env.messages > 0
    /\ delivered' = delivered + 1
    /\ env' = [env EXCEPT !.messages = @ - 1]
    /\ \E inp \in Inputs, decodable \in BOOLEAN :
        IF ~decodable
        THEN UNCHANGED <<stats, cbVars, hist>>
        ELSE IF Full(data_queue)
             THEN /\ hist' = [hist EXCEPT !.dropped = @ \cup {delivered + 1}]
                  /\ UNCHANGED <<stats, cbVars>>
             ELSE /\ stats' = [stats EXCEPT !.messages_received = @ + 1]
                  /\ cbPc' = "put"
                  /\ cbMsg' = [n |-> delivered + 1, topic |-> inp.topic,
                               payload |-> inp.payload, timestamp |-> 0]
                  /\ UNCHANGED hist
    /\ UNCHANGED <<lifeVars, data_queue, workerVars, sinceExport, storeVars,
                   clockVars, fileVars, cleanup_logged>>

OnMessage ==
    /\ netLoop
    /\ session.up
    /\ cbPc = "idle"
    /\ env.messages > 0
    /\ delivered' = delivered + 1
    /\ env' = [env EXCEPT !.messages = @ - 1]
    /\ \E inp \in Inputs, decodable \in BOOLEAN :
        IF ~decodable
        THEN UNCHANGED <<stats, cbVars, hist>>
        ELSE /\ stats' = [stats EXCEPT !.messages_received = @ + 1]
             /\ IF Full(data_queue)
                THEN /\ hist' = [hist EXCEPT !.dropped = @ \cup {delivered + 1}]
                     /\ UNCHANGED cbVars
                ELSE /\ cbPc' = "put"
                     /\ cbMsg' = [n |-> delivered + 1, topic |-> inp.topic,
                                  payload |-> inp.payload, timestamp |-> 0]
                     /\ UNCHANGED hist
    /\ UNCHANGED <<lifeVars, data_queue, workerVars, sinceExport, storeVars,
                   clockVars, fileVars, cleanup_logged>>

\* self.data_queue.put({...}): blocks while the queue is full.
OnMessagePutStores ==
    /\ cbPc = "put"
    /\ Len(data_queue) < QueueMaxSize
    /\ data_queue' = Append(data_queue, [cbMsg EXCEPT !.timestamp = LocalNow])
    /\ cbPc' = "idle"
    /\ cbMsg' = NoMsg
    /\ hist' = [hist EXCEPT !.accepted = Append(@, cbMsg.n)]
    /\ sensor_data' =
          sensor_data \cup
             {ReadingRow(seqReading + 1, [cbMsg EXCEPT !.timestamp = LocalNow],
                         DeviceId(cbMsg.topic),
                         validate_sensor_data(json_loads(cbMsg.payload).data))}
    /\ seqReading' = seqReading + 1
    /\ UNCHANGED <<lifeVars, stats, workerVars, sinceExport, alerts, seqAlert,
                   clockVars, fileVars, cleanup_logged, delivered, env>>
OnMessagePut ==
    /\ cbPc = "put"
    /\ Len(data_queue) < QueueMaxSize
    /\ data_queue' = Append(data_queue, [cbMsg EXCEPT !.timestamp = LocalNow])
    /\ cbPc' = "idle"
    /\ cbMsg' = NoMsg
    /\ hist' = [hist EXCEPT !.accepted = Append(@, cbMsg.n)]
    /\ UNCHANGED <<lifeVars, stats, workerVars, sinceExport, storeVars,
                   clockVars, fileVars, cleanup_logged, delivered, env>>

(***************************************************************************)
(* The store's writers.  Each opens its own connection, commits, and       *)
(* catches whatever the store raises.                                      *)
(***************************************************************************)
\* _store_sensor_data: the insert commits, or raises and is logged.
StoreSensorData(message, device_id, sensor, ok) ==
       IF ok
       THEN /\ sensor_data' = sensor_data \cup
                 {ReadingRow(seqReading + 1, message, device_id, sensor)}
            /\ seqReading' = seqReading + 1
       ELSE UNCHANGED <<sensor_data, seqReading>>

\* _store_alert: the insert commits, or raises and is logged.
StoreAlert(device_id, alert, n, ok) ==
       IF ok
       THEN /\ alerts' = alerts \cup {AlertRow(seqAlert + 1, device_id, alert, n)}
            /\ seqAlert' = seqAlert + 1
       ELSE UNCHANGED <<alerts, seqAlert>>

\* _cleanup_old_data.  Both DELETEs are committed together, or neither when
\* the store raises; deleted is the rowcount of the last statement, and it
\* is logged when it is not 0.
CleanupOldData(ok) ==
       IF ok
       THEN /\ sensor_data' = Sweep(sensor_data)
            /\ alerts' = Sweep(alerts)
            /\ cleanup_logged' = Cardinality(alerts \ Sweep(alerts))
       ELSE /\ cleanup_logged' = 0
            /\ UNCHANGED <<sensor_data, alerts>>

(***************************************************************************)
(* _data_processing_loop, in the worker thread.                            *)
(***************************************************************************)
\* while not self.data_queue.empty(): message = self.data_queue.get_nowait()
\* One test of empty() and, when it is false, the get that follows it (the
\* worker is the only consumer).  first: this is the tick's first test.
DrainSkip(first) ==
    IF Len(data_queue) >= 2
    THEN /\ data_queue' = Tail(Tail(data_queue))
         /\ wMsg' = data_queue[2]
         /\ wPc' = "process"
         /\ hist' =
               [hist EXCEPT
                  !.taken = Append(@, data_queue[2].n),
                  !.drainStart = IF first THEN Ns(data_queue) ELSE @,
                  !.tickTaken = IF first THEN <<data_queue[2].n>>
                                ELSE Append(@, data_queue[2].n)]
    ELSE IF data_queue # <<>>
    THEN /\ data_queue' = Tail(data_queue)
         /\ wMsg' = Head(data_queue)
         /\ wPc' = "process"
         /\ hist' =
               [hist EXCEPT
                  !.taken = Append(@, Head(data_queue).n),
                  !.drainStart = IF first THEN Ns(data_queue) ELSE @,
                  !.tickTaken = IF first THEN <<Head(data_queue).n>>
                                ELSE Append(@, Head(data_queue).n)]
    ELSE /\ wPc' = "gate"
         /\ hist' = IF first THEN [hist EXCEPT !.drainStart = <<>>, !.tickTaken = <<>>]
                    ELSE hist
         /\ UNCHANGED <<data_queue, wMsg>>

DrainAtomic(first) ==
    IF first /\ data_queue # <<>>
    THEN /\ data_queue' = Tail(data_queue)
         /\ wMsg' = Head(data_queue)
         /\ wPc' = "process"
         /\ hist' = [hist EXCEPT !.taken = Append(@, Head(data_queue).n),
                                 !.drainStart = Ns(data_queue),
                                 !.tickTaken = <<Head(data_queue).n>>]
    ELSE IF ~first /\ Len(hist.tickTaken) < Len(hist.drainStart)
    THEN /\ data_queue' = Tail(data_queue)
         /\ wMsg' = Head(data_queue)
         /\ wPc' = "process"
         /\ hist' = [hist EXCEPT !.taken = Append(@, Head(data_queue).n),
                                 !.tickTaken = Append(@, Head(data_queue).n)]
    ELSE /\ wPc' = "gate"
         /\ hist' = IF first THEN [hist EXCEPT !.drainStart = <<>>, !.tickTaken = <<>>]
                    ELSE hist
         /\ UNCHANGED <<data_queue, wMsg>>

Drain(first) ==
    IF data_queue # <<>>
    THEN /\ data_queue' = Tail(data_queue)
         /\ wMsg' = Head(data_queue)
         /\ wPc' = "process"
         /\ hist' =
               [hist EXCEPT
                  !.taken = Append(@, Head(data_queue).n),
                  !.drainStart = IF first THEN Ns(data_queue) ELSE @,
                  !.tickTaken = IF first THEN <<Head(data_queue).n>>
                                ELSE Append(@, Head(data_queue).n)]
    ELSE /\ wPc' = "gate"
         /\ hist' = IF first THEN [hist EXCEPT !.drainStart = <<>>, !.tickTaken = <<>>]
                    ELSE hist
         /\ UNCHANGED <<data_queue, wMsg>>

\* while self.running
LoopTestStale == TRUE
LoopTest == running

\* while self.running: true, and the first test of the inner loop.
WLoop ==
    /\ wPc = "while"
    /\ LoopTest
    /\ Drain(TRUE)
    /\ UNCHANGED <<lifeVars, stats, cbVars, wDevice, wSensor, wAlerts, wIdx, sinceExport,
                   storeVars, clockVars, fileVars, cleanup_logged, delivered,
                   env>>

\* while self.running: false.  The loop ends.
WExit ==
    /\ wPc = "while"
    /\ ~LoopTest
    /\ wPc' = "stopped"
    /\ UNCHANGED <<lifeVars, data_queue, stats, cbVars, wMsg, wDevice, wSensor,
                   wAlerts, wIdx, sinceExport, storeVars, clockVars, fileVars,
                   cleanup_logged, delivered, env, hist>>

\* The inner loop's test after a message has been processed.
WDrain ==
    /\ wPc = "empty"
    /\ Drain(FALSE)
    /\ UNCHANGED <<lifeVars, stats, cbVars, wDevice, wSensor, wAlerts, wIdx, sinceExport,
                   storeVars, clockVars, fileVars, cleanup_logged, delivered,
                   env>>

\* _process_sensor_message up to and including _store_sensor_data, and the
\* building of the alerts list.  A payload json.loads or data.get raises on
\* is logged and left.
WProcess ==
    /\ wPc = "process"
    /\ LET parsed == json_loads(wMsg.payload)
           device_id == DeviceId(wMsg.topic)
           sensor == validate_sensor_data(parsed.data)
           list == check_alert_conditions(sensor.values)
       IN IF ~parsed.ok
          THEN /\ wPc' = "empty"
               /\ UNCHANGED <<stats, wDevice, wSensor, wAlerts, wIdx, storeVars, env,
                              hist>>
          ELSE /\ wDevice' = device_id
               /\ wSensor' = sensor
               /\ wAlerts' = list
               /\ wIdx' = 1
               /\ \E ok \in Outcomes :
                     /\ StoreSensorData(wMsg, device_id, sensor, ok)
                     /\ env' = After(env, ok)
               /\ IF list = <<>>
                  THEN /\ stats' = [stats EXCEPT !.messages_processed = @ + 1]
                       /\ wPc' = "empty"
                  ELSE /\ wPc' = "alert"
                       /\ UNCHANGED stats
               /\ UNCHANGED <<alerts, seqAlert, hist>>
    /\ UNCHANGED <<lifeVars, data_queue, cbVars, wMsg, sinceExport, clockVars,
                   fileVars, cleanup_logged, delivered>>

\* _process_sensor_message step by step.  json.loads, the device id and
\* _validate_sensor_data; a payload json.loads or data.get raises on is
\* logged and left.
WValidateAbortsBatch ==
    /\ wPc = "process"
    /\ IF ~json_loads(wMsg.payload).ok
       THEN /\ wPc' = "gate"
            /\ UNCHANGED <<wDevice, wSensor>>
       ELSE /\ wPc' = "store"
            /\ wDevice' = DeviceId(wMsg.topic)
            /\ wSensor' = validate_sensor_data(json_loads(wMsg.payload).data)
    /\ wAlerts' = <<>>
    /\ wIdx' = 1
    /\ UNCHANGED <<lifeVars, data_queue, stats, cbVars, wMsg, sinceExport, storeVars,
                   clockVars, fileVars, cleanup_logged, delivered, env, hist>>

WValidateCountsDiscard ==
    /\ wPc = "process"
    /\ IF ~json_loads(wMsg.payload).ok
       THEN /\ wPc' = "empty"
            /\ stats' = [stats EXCEPT !.messages_processed = @ + 1]
            /\ UNCHANGED <<wDevice, wSensor>>
       ELSE /\ wPc' = "store"
            /\ wDevice' = DeviceId(wMsg.topic)
            /\ wSensor' = validate_sensor_data(json_loads(wMsg.payload).data)
            /\ stats' = stats
    /\ wAlerts' = <<>>
    /\ wIdx' = 1
    /\ UNCHANGED <<lifeVars, data_queue, cbVars, wMsg, sinceExport, storeVars,
                   clockVars, fileVars, cleanup_logged, delivered, env, hist>>

WValidateSkipsStore ==
    /\ wPc = "process"
    /\ IF ~json_loads(wMsg.payload).ok
       THEN /\ wPc' = "empty"
            /\ UNCHANGED <<wDevice, wSensor>>
       ELSE /\ wPc' = "check"
            /\ wDevice' = DeviceId(wMsg.topic)
            /\ wSensor' = validate_sensor_data(json_loads(wMsg.payload).data)
    /\ wAlerts' = <<>>
    /\ wIdx' = 1
    /\ UNCHANGED <<lifeVars, data_queue, stats, cbVars, wMsg, sinceExport, storeVars,
                   clockVars, fileVars, cleanup_logged, delivered, env, hist>>

WValidate ==
    /\ wPc = "process"
    /\ IF ~json_loads(wMsg.payload).ok
       THEN /\ wPc' = "empty"
            /\ UNCHANGED <<wDevice, wSensor>>
       ELSE /\ wPc' = "store"
            /\ wDevice' = DeviceId(wMsg.topic)
            /\ wSensor' = validate_sensor_data(json_loads(wMsg.payload).data)
    /\ wAlerts' = <<>>
    /\ wIdx' = 1
    /\ UNCHANGED <<lifeVars, data_queue, stats, cbVars, wMsg, sinceExport, storeVars,
                   clockVars, fileVars, cleanup_logged, delivered, env, hist>>

\* self._store_sensor_data(sensor_data): the insert commits, or raises and
\* is logged inside; either way the caller goes on.
WInsertRetries ==
    /\ wPc = "store"
    /\ \E ok \in Outcomes :
          /\ StoreSensorData(wMsg, wDevice, wSensor, ok)
          /\ env' = After(env, ok)
          /\ wPc' = IF ok THEN "check" ELSE "store"
    /\ UNCHANGED <<lifeVars, data_queue, stats, cbVars, wMsg, wDevice, wSensor,
                   wAlerts, wIdx, sinceExport, alerts, seqAlert, clockVars,
                   fileVars, cleanup_logged, delivered, hist>>

WInsert ==
    /\ wPc = "store"
    /\ wPc' = "check"
    /\ \E ok \in Outcomes :
          /\ StoreSensorData(wMsg, wDevice, wSensor, ok)
          /\ env' = After(env, ok)
    /\ UNCHANGED <<lifeVars, data_queue, stats, cbVars, wMsg, wDevice, wSensor,
                   wAlerts, wIdx, sinceExport, alerts, seqAlert, clockVars,
                   fileVars, cleanup_logged, delivered, hist>>

\* self._check_alert_conditions(sensor_data) up to its store loop; with no
\* alert to store it returns and messages_processed is counted.
WEvaluate ==
    /\ wPc = "check"
    /\ wAlerts' = check_alert_conditions(wSensor.values)
    /\ wIdx' = 1
    /\ IF check_alert_conditions(wSensor.values) = <<>>
       THEN /\ stats' = [stats EXCEPT !.messages_processed = @ + 1]
            /\ wPc' = "empty"
       ELSE /\ wPc' = "alert"
            /\ UNCHANGED stats
    /\ UNCHANGED <<lifeVars, data_queue, cbVars, wMsg, wDevice, wSensor, sinceExport,
                   storeVars, clockVars, fileVars, cleanup_logged, delivered, env,
                   hist>>

\* One pass of "for severity, message in alerts: self._store_alert(...)";
\* after the last one, messages_processed is counted.
WStoreAlert ==
    /\ wPc = "alert"
    /\ wIdx <= Len(wAlerts)
    /\ \E ok \in Outcomes :
          /\ StoreAlert(wDevice, wAlerts[wIdx], wMsg.n, ok)
          /\ env' = After(env, ok)
    /\ wIdx' = wIdx + 1
    /\ IF wIdx = Len(wAlerts)
       THEN /\ stats' = [stats EXCEPT !.messages_processed = @ + 1]
            /\ wPc' = "empty"
       ELSE UNCHANGED <<stats, wPc>>
    /\ UNCHANGED <<lifeVars, data_queue, cbVars, wMsg, wDevice, wSensor, wAlerts,
                   sinceExport, sensor_data, seqReading, clockVars, fileVars,
                   cleanup_logged, delivered, hist>>

\* What is left of time.time() - last_csv_update once it exceeds the interval.
ExportDue == csv_update_interval + 1

\* time.time() - last_csv_update > self.config['csv_update_interval']
ExportIsDueAtInterval == sinceExport >= csv_update_interval
ExportIsDue == sinceExport > csv_update_interval

\* _update_csv_export: the file is written only when the query has rows.
\* _update_matlab_export: likewise.  Either may raise, which is logged.
WGate ==
    /\ wPc = "gate"
    /\ wPc' = "cleanup"
    /\ IF ExportIsDue
       THEN /\ sinceExport' = 0
            /\ hist' = [hist EXCEPT !.exportSaw = {r.msg : r \in sensor_data},
                                    !.exportAt = now]
            /\ \E okCsv \in Outcomes, okJson \in Outcomes :
                 /\ env' = IF okCsv /\ okJson THEN env ELSE Fault
                 /\ IF okCsv
                    THEN \E rows \in CsvRows :
                           csv_file' = IF rows # {}
                                       THEN [written |-> TRUE, rows |-> rows]
                                       ELSE csv_file
                    ELSE UNCHANGED csv_file
                 /\ IF okJson
                    THEN \E rows \in LatestPerDevice :
                           json_file' =
                              IF rows # {}
                              THEN [written |-> TRUE, timestamp |-> LocalNow,
                                    devices |-> {DeviceData(r) : r \in rows}]
                              ELSE json_file
                    ELSE UNCHANGED json_file
       ELSE UNCHANGED <<sinceExport, fileVars, env, hist>>
    /\ UNCHANGED <<lifeVars, data_queue, stats, cbVars, wMsg, wDevice, wSensor,
                   wAlerts, wIdx, storeVars, clockVars, cleanup_logged, delivered>>

\* _cleanup_old_data, then time.sleep(processing_interval).
WCleanup ==
    /\ wPc = "cleanup"
    /\ wPc' = "while"
    /\ sinceExport' = Min(sinceExport + processing_interval, ExportDue)
    /\ \E ok \in Outcomes : CleanupOldData(ok) /\ env' = After(env, ok)
    /\ UNCHANGED <<lifeVars, data_queue, stats, cbVars, wMsg, wDevice, wSensor,
                   wAlerts, wIdx, seqReading, seqAlert, clockVars, fileVars, delivered,
                   hist>>

(***************************************************************************)
(* The collaborator-facing API, called from the dashboard's thread.        *)
(***************************************************************************)
\* The ids a caller passes: those of the rows in the table, and one that is
\* not in it.
AlertIds == {r.id : r \in alerts} \cup {seqAlert + 1}

\* acknowledge_alert(alert_id).
AcknowledgeAlert ==
    /\ env.calls > 0
    /\ \E alert_id \in AlertIds, ok \in Outcomes :
         IF ok
         THEN /\ alerts' = AcknowledgeUpdate(alerts, alert_id)
              /\ hist' = [hist EXCEPT
                            !.acked = IF \E r \in alerts : r.id = alert_id
                                      THEN @ \cup {alert_id} ELSE @,
                            !.reacked = IF alert_id \in hist.acked
                                        THEN @ \cup {alert_id} ELSE @]
              /\ env' = After(Called, TRUE)
         ELSE /\ env' = After(Called, FALSE)
              /\ UNCHANGED <<alerts, hist>>
    /\ UNCHANGED <<lifeVars, data_queue, stats, cbVars, workerVars, sinceExport,
                   sensor_data, seqReading, seqAlert, clockVars, fileVars,
                   cleanup_logged, delivered>>

\* get_active_alerts(): the rows of the query, or [] when the store raises.
GetActiveAlerts ==
    /\ env.calls > 0
    /\ \E ok \in Outcomes :
         IF ok
         THEN /\ \E rows \in ActiveAlerts(alerts) :
                   hist' = [hist EXCEPT !.activeResult = rows, !.ackedAtQuery = hist.acked]
              /\ env' = After(Called, TRUE)
         ELSE /\ hist' = [hist EXCEPT !.activeResult = {}, !.ackedAtQuery = hist.acked]
              /\ env' = After(Called, FALSE)
    /\ UNCHANGED <<lifeVars, data_queue, stats, cbVars, workerVars, sinceExport,
                   storeVars, clockVars, fileVars, cleanup_logged, delivered>>

(***************************************************************************)
(* get_statistics, called by the main thread of __main__ while the manager *)
(* runs.  Its three COUNT statements run one after another on one          *)
(* connection, each seeing what is committed then.                         *)
(***************************************************************************)
\* conn = sqlite3.connect(self.db_path)
StatsConnect ==
    /\ mainPc = "started"
    /\ mainPc' = "records"
    /\ UNCHANGED <<netLoop, running, mainStats, others, session, data_queue, stats, cbVars,
                   workerVars, sinceExport, storeVars, clockVars, fileVars,
                   cleanup_logged, delivered, env, hist>>

\* SELECT COUNT(*) FROM sensor_data
StatsCountRecords ==
    /\ mainPc = "records"
    /\ mainPc' = "devices"
    /\ mainStats' = [mainStats EXCEPT !.total_records = Cardinality(sensor_data)]
    /\ UNCHANGED <<netLoop, running, session, others, data_queue, stats, cbVars,
                   workerVars, sinceExport, storeVars, clockVars, fileVars,
                   cleanup_logged, delivered, env, hist>>

\* SELECT COUNT(DISTINCT device_id) FROM sensor_data
StatsCountDevices ==
    /\ mainPc = "devices"
    /\ mainPc' = "alerts"
    /\ mainStats' = [mainStats EXCEPT
                        !.unique_devices = Cardinality({r.device_id : r \in sensor_data})]
    /\ UNCHANGED <<netLoop, running, session, others, data_queue, stats, cbVars,
                   workerVars, sinceExport, storeVars, clockVars, fileVars,
                   cleanup_logged, delivered, env, hist>>

\* SELECT COUNT(*) FROM alerts WHERE acknowledged = 0; conn.close(); the
\* copy of self.stats with the three counts is returned to __main__, which
\* prints it and keeps nothing of it.
StatsCountAlerts ==
    /\ mainPc = "alerts"
    /\ mainPc' = "started"
    /\ mainStats' = NoStatistics
    /\ UNCHANGED <<netLoop, running, session, others, data_queue, stats, cbVars,
                   workerVars, sinceExport, storeVars, clockVars, fileVars,
                   cleanup_logged, delivered, env, hist>>

(***************************************************************************)
(* Time.                                                                   *)
(***************************************************************************)
HourPasses ==
    /\ env.hours > 0
    /\ env' = [env EXCEPT !.hours = @ - 1]
    /\ now' = now + 1
    /\ sinceExport' = ExportDue
    /\ UNCHANGED <<lifeVars, data_queue, stats, cbVars, workerVars, storeVars, tz,
                   fileVars, cleanup_logged, delivered, hist>>

Next ==
    \/ StartMqttClient
    \/ OnConnect
    \/ StopFlag
    \/ StopJoin
    \/ OnMessage
    \/ OnMessagePut
    \/ WLoop
    \/ WExit
    \/ WDrain
    \/ WProcess
    \/ WStoreAlert
    \/ WGate
    \/ WCleanup

Spec == Init /\ [][Next]_vars

(***************************************************************************)
(* The life of one manager as __main__ runs it: start, the broker's        *)
(* answers and the session going down and up again, get_statistics polled  *)
(* by the main thread, stop.                                               *)
(***************************************************************************)
InitLife ==
    /\ InitCommon
    /\ InitNotStarted
    /\ InitEmptyStore
    /\ tz = 0
    /\ env = [NoEnv EXCEPT !.messages = MaxDeliveries, !.connects = MaxConnects]

WorkerStep ==
    WLoop \/ WExit \/ WDrain \/ WProcess \/ WStoreAlert \/ WGate \/ WCleanup

NextLife ==
    \/ StartMqttClient
    \/ OnConnect
    \/ OnDisconnect
    \/ StatsConnect
    \/ StatsCountRecords
    \/ StatsCountDevices
    \/ StatsCountAlerts
    \/ StopFlag
    \/ StopJoin
    \/ OnMessage
    \/ OnMessagePut
    \/ WLoop
    \/ WExit
    \/ WDrain
    \/ WProcess
    \/ WStoreAlert
    \/ WGate
    \/ WCleanup

SpecLife == InitLife /\ [][NextLife]_vars

\* C13 as claimed: when the connection attempt made at startup fails, the
\* status becomes failed and the error reaches the caller of start.
C13_ConnectFailureFatal ==
    /\ mainPc = "failed" => stats.connection_status = "failed"
    /\ (session.rc \in ConnackCodes \ {0} /\ env.connects = MaxConnects - 1)
          => mainPc = "failed"

\* C13 as amended: when connect() raises, start re-raises to its caller,
\* starts neither the transport loop nor the worker, and the status stays
\* disconnected; the status is failed only after the broker has refused a
\* connection with a non-zero result code, which _on_connect sees after
\* start has returned.
C13_ConnectFailureSplit ==
    /\ mainPc = "failed" =>
          /\ stats.connection_status = "disconnected"
          /\ ~running /\ ~netLoop /\ wPc = "idle"
          /\ session = NoSession
    /\ stats.connection_status = "failed" =>
          /\ mainPc \notin {"init", "failed"}
          /\ session.rc \in ConnackCodes \ {0}
          /\ ~session.up

\* connect() has raised and start has failed.
C13_Witness ==
    /\ mainPc = "failed"
    /\ stats.connection_status = "disconnected"
    /\ wPc = "idle"

\* C14: whenever the broker has accepted a connection, the first or a later
\* one, the status is connected and every configured topic pattern is
\* subscribed.
C14_AcceptedSubscribesAll ==
    session.up =>
       /\ session.rc = 0
       /\ stats.connection_status = "connected"
       /\ session.subscribed = Topics

\* The broker has accepted the second connection attempt of the run.
C14_Witness ==
    /\ session.up
    /\ env.connects = MaxConnects - 2
    /\ session.subscribed = Topics

\* C23: a session that goes down while the transport loop runs sets the
\* status to disconnected and changes nothing else: the manager is not
\* stopped, the running flag, the queue, the worker and the store are as
\* they were, and no connection attempt is made by that step; the worker
\* never waits for the session, it has a step to take whenever it is inside
\* its loop; and when a later connection is accepted the status is
\* connected again and the topics are subscribed again.
C23_DisconnectNonFatal ==
    /\ [][(session.up /\ ~session'.up /\ netLoop') =>
            /\ stats'.connection_status = "disconnected"
            /\ UNCHANGED <<mainPc, netLoop, running, data_queue, workerVars,
                           storeVars, env>>]_vars
    /\ [][(~session.up /\ session'.up) =>
            /\ stats'.connection_status = "connected"
            /\ session'.subscribed = Topics
            /\ UNCHANGED <<mainPc, running, workerVars>>]_vars
    /\ []((wPc \notin {"idle", "stopped"}) => ENABLED WorkerStep)

\* The session went down after the broker had accepted it, and the worker
\* is processing a message.
C23_Witness ==
    /\ ~session.up
    /\ session.rc = 0
    /\ netLoop
    /\ stats.connection_status = "disconnected"
    /\ running
    /\ wPc = "process"

\* C16 as claimed: no thread but the worker is ever inside a store
\* operation.
C16_WorkerOnly == mainPc \notin {"records", "devices", "alerts"}

\* C16 as amended: every insert, delete and export is a step of the worker
\* thread, and no step of the transport's callbacks or of the main thread
\* changes a table or an export file; get_statistics reads the store in the
\* main thread while the worker runs.
C16_OnlyWorkerWrites ==
    [][(storeVars' # storeVars \/ fileVars' # fileVars)
          => /\ wPc \in {"process", "alert", "gate", "cleanup"}
             /\ wPc' # wPc \/ wIdx' # wIdx
             /\ UNCHANGED <<cbVars, lifeVars, data_queue>>]_vars

\* The main thread counted no record, and while its connection was open the
\* worker stored a reading.
C16_Witness ==
    /\ mainPc \in {"devices", "alerts"}
    /\ mainStats.total_records = 0
    /\ sensor_data # {}
    /\ wPc = "alert"

(***************************************************************************)
(* The store on its own: the manager is constructed on a database file an  *)
(* earlier run has filled, and its methods are called one after another.   *)
(***************************************************************************)
\* The retention horizon in hours, and the ages of the rows found in the
\* store: a day and an hour on either side of the horizon, and on it.
Horizon == HoursPerDay * data_retention_days
SeedAges ==
    {Horizon - HoursPerDay, Horizon - 1, Horizon, Horizon + 1, Horizon + HoursPerDay}

\* Older rows have the smaller ids.
SeedId(age) == Cardinality({a \in SeedAges : a >= age})

\* A reading an earlier run stored age hours ago: stamped with the host's
\* local time of then.
SeedReading(age) ==
    ReadingRow(SeedId(age),
               [n |-> 0, topic |-> TopicDev1, payload |-> PayloadDev1,
                timestamp |-> StartHour - age + tz],
               "dev1", validate_sensor_data(PayloadDev1.data))

\* The alert that reading raised (its temperature is below 5), acknowledged
\* since or not: stamped CURRENT_TIMESTAMP.
SeedAlert(age, acknowledged) ==
    [id |-> SeedId(age), timestamp |-> StartHour - age, device_id |-> "dev1",
     alert_type |-> "sensor_threshold", severity |-> "critical",
     message |-> [text |-> "Critically low temperature", value |-> 20],
     acknowledged |-> acknowledged, msg |-> 0]

SeedSets == {A \in SUBSET SeedAges : Cardinality(A) <= MaxSeedRows}

InitSeeded ==
    /\ InitCommon
    /\ InitNotStarted
    /\ \E A \in SeedSets : \E acked \in SUBSET A :
          /\ sensor_data = {SeedReading(a) : a \in A}
          /\ alerts = {SeedAlert(a, a \in acked) : a \in A}
    /\ seqReading = Cardinality(SeedAges)
    /\ seqAlert = Cardinality(SeedAges)

\* The alerts table never reads the host's offset: the host is at UTC.
InitStore ==
    /\ tz = 0
    /\ InitSeeded
    /\ env = [NoEnv EXCEPT !.faults = MaxFailures, !.calls = MaxCalls]

\* The alerts stored by direct calls of _store_alert.
CallAlerts ==
    {[device_id |-> "dev1", alert |-> Alert("critical", "Critically low temperature", 20)],
     [device_id |-> "dev2", alert |-> Alert("warning", "Low battery", 150)]}

CallStoreAlert ==
    /\ env.calls > 0
    /\ \E c \in CallAlerts, ok \in Outcomes :
          /\ StoreAlert(c.device_id, c.alert, 0, ok)
          /\ env' = After(Called, ok)
    /\ UNCHANGED <<lifeVars, data_queue, stats, cbVars, workerVars, sinceExport,
                   sensor_data, seqReading, clockVars, fileVars, cleanup_logged,
                   delivered, hist>>

CallCleanup ==
    /\ env.calls > 0
    /\ \E ok \in Outcomes : CleanupOldData(ok) /\ env' = After(Called, ok)
    /\ UNCHANGED <<lifeVars, data_queue, stats, cbVars, workerVars, sinceExport,
                   seqReading, seqAlert, clockVars, fileVars, delivered, hist>>

NextStore ==
    \/ CallStoreAlert
    \/ CallCleanup
    \/ AcknowledgeAlert
    \/ GetActiveAlerts

SpecStore == InitStore /\ [][NextStore]_vars

\* The sweep on a host at any offset from UTC, while hours pass.
InitSweep ==
    /\ tz \in TzOffsets
    /\ InitSeeded
    /\ env = [NoEnv EXCEPT !.faults = MaxFailures, !.calls = MaxCalls,
                           !.hours = MaxHours]

NextSweep ==
    \/ CallStoreAlert
    \/ CallCleanup
    \/ HourPasses

SpecSweep == InitSweep /\ [][NextSweep]_vars

(***************************************************************************)
(* Properties of the queue, the callback and the drain.                    *)
(***************************************************************************)
Range(q) == {q[i] : i \in 1..Len(q)}
IsPrefix(p, q) == Len(p) <= Len(q) /\ \A i \in 1..Len(p) : p[i] = q[i]

\* The arrival numbers some stored row, or the worker's current message,
\* comes from.
Handled ==
    {r.msg : r \in sensor_data} \cup {r.msg : r \in alerts}
    \cup (IF wPc \in {"process", "alert"} THEN {wMsg.n} ELSE {})

\* C1: the queue never holds more than its capacity; a message that arrives
\* when the queue is full is dropped at once (the callback returns, the
\* queue is untouched) and is never taken out, processed or stored later;
\* the messages that were queued are taken out by the worker in their order
\* of arrival, none skipped: what was accepted is what the worker has taken
\* followed by what is still queued.
C1_QueueState ==
    /\ Len(data_queue) <= QueueMaxSize
    /\ hist.dropped \cap (Range(hist.accepted) \cup Range(hist.taken) \cup Handled) = {}
    /\ hist.accepted = hist.taken \o Ns(data_queue)

C1_DropStep ==
    (/\ Len(data_queue) = QueueMaxSize
     /\ stats'.messages_received = stats.messages_received + 1)
    => /\ (delivered + 1) \in hist'.dropped
       /\ cbPc' = "idle"
       /\ data_queue' = data_queue

C1_FullQueueDrops == [](C1_QueueState) /\ [][C1_DropStep]_vars

\* A message was dropped on a full queue, and the worker has since taken out
\* and processed every message that was queued before it.
C1_Witness ==
    \E n \in hist.dropped :
        /\ Cardinality({m \in Range(hist.taken) : m < n}) >= QueueMaxSize
        /\ {m \in Range(hist.accepted) : m < n} \subseteq Range(hist.taken)
        /\ wPc = "gate"
        /\ stats.messages_processed >= 1

\* C2: the callback never blocks.  Whenever it is about to execute put, the
\* queue has a free slot, whatever the worker did since full() was tested;
\* and it is never left holding a message while idle.
C2_PutNeverBlocks ==
    /\ cbPc = "put" => Len(data_queue) < QueueMaxSize
    /\ cbPc = "idle" => cbMsg = NoMsg

\* The callback is about to put into the last free slot while the worker is
\* in the middle of processing a message it took out.
C2_Witness ==
    /\ cbPc = "put"
    /\ Len(data_queue) = QueueMaxSize - 1
    /\ wPc = "process"

\* C3 as claimed: the messages a tick has processed when its drain ends are
\* exactly those queued when the drain started.
C3_AtomicDrain ==
    wPc \in {"gate", "cleanup"} => hist.tickTaken = hist.drainStart

\* C3 as amended: the drain takes one message at a time until it finds the
\* queue empty.  A tick processes the messages queued when its drain
\* started, in order, then the messages put into the queue while it was
\* processing, in the same tick; the drain ends only on an empty queue.
C3_DrainState ==
    /\ IsPrefix(hist.tickTaken, hist.drainStart) \/ IsPrefix(hist.drainStart, hist.tickTaken)
    /\ wPc \in {"gate", "cleanup"} => IsPrefix(hist.drainStart, hist.tickTaken)
    /\ \E k \in 0..Len(hist.taken) :
          hist.taken = SubSeq(hist.taken, 1, k) \o hist.tickTaken

C3_DrainEnds ==
    (wPc \in {"while", "empty"} /\ wPc' = "gate") => data_queue = <<>>

C3_DrainUntilEmpty == [](C3_DrainState) /\ [][C3_DrainEnds]_vars

\* A tick's drain has ended having processed a message that was put into
\* the queue after the drain started.
C3_Witness ==
    /\ wPc = "gate"
    /\ Len(hist.tickTaken) > Len(hist.drainStart)

(***************************************************************************)
(* The validator and the alert rules on one message: the worker processes  *)
(* a message whose payload is drawn from readings around every boundary.   *)
(***************************************************************************)
\* A value inside each range, and the thresholds of the alert rules.
MidValue ==
    [f \in FieldSet |->
        CASE f = "temperature" -> 250
          [] f = "humidity" -> 500
          [] f = "soil_moisture" -> 500
          [] f = "ph_level" -> 70
          [] f = "light_intensity" -> 10000
          [] f = "battery_level" -> 500
          [] f = "signal_strength" -> -600]

Thresholds ==
    [f \in FieldSet |->
        CASE f = "temperature" -> {40, 50, 100, 350, 400}
          [] f = "soil_moisture" -> {200, 300, 800}
          [] f = "ph_level" -> {55, 80}
          [] f = "battery_level" -> {100, 200}
          [] OTHER -> {}]

\* The values a field takes under test: numbers on and beside each end of
\* its range and each threshold, and one value of every other JSON kind.
TestValues(f) ==
    {Num(x) : x \in {ranges[f][1] - 1, ranges[f][1], ranges[f][2], ranges[f][2] + 1}}
    \cup {Num(x) : x \in UNION {{t - 1, t, t + 1} : t \in Thresholds[f]}}
    \cup {Num(MidValue[f]), Str(MidValue[f]), Text, Bool(1), NaN, Null}

TestLocations ==
    {NoLocation, Location(Num(125), Num(775)), Location(Num(125), Null),
     Location(Null, Null)}

BaseFull == [fields |-> [f \in FieldSet |-> Num(MidValue[f])],
             location |-> Location(Num(125), Num(775))]
BaseEmpty == [fields |-> NoFields, location |-> NoLocation]

\* The manager is running, the callback has queued one message for dev1 and
\* the transport delivers no more.  The reading of the message is a base
\* reading (every field in range, or no field at all) with two fields and
\* the location replaced.
InitValidate ==
    /\ InitCommon
    /\ InitEmptyStore
    /\ mainPc = "started"
    /\ netLoop = TRUE
    /\ running = TRUE
    /\ wPc = "while"
    /\ session = SessionUp
    /\ mainStats = NoStatistics
    /\ others = 0
    /\ tz = 0
    /\ \E base \in {BaseFull, BaseEmpty}, f1 \in FieldSet, f2 \in FieldSet,
          l \in TestLocations :
         \E x1 \in TestValues(f1), x2 \in TestValues(f2) :
            data_queue =
               <<[n |-> 1, topic |-> TopicDev1,
                  payload |-> Object([base.fields EXCEPT ![f1] = x1, ![f2] = x2], l),
                  timestamp |-> StartHour]>>
    /\ stats = [messages_received |-> 1, messages_processed |-> 0,
                connection_status |-> "connected"]
    /\ delivered = 1
    /\ hist = [NoHist EXCEPT !.accepted = <<1>>]
    /\ env = [NoEnv EXCEPT !.faults = MaxFailures]

NextValidate ==
    \/ WLoop
    \/ WProcess
    \/ WStoreAlert
    \/ WDrain

SpecValidate == InitValidate /\ [][NextValidate]_vars

(***************************************************************************)
(* Properties of the validator and of the alert rules.                     *)
(***************************************************************************)
\* The worker has validated the message it holds: wSensor and wAlerts are
\* the results for wMsg.
Validated ==
    /\ wPc \in {"alert", "empty", "gate", "cleanup", "while", "stopped"}
    /\ wMsg # NoMsg
    /\ json_loads(wMsg.payload).ok

RawFields == wMsg.payload.data.fields

\* The documented inclusive range of a field (spec section 4.3).
InRange(f, value) ==
    value.kind = "num" /\ ranges[f][1] <= value.v /\ value.v <= ranges[f][2]

\* C4 as claimed: when every recognized field is a number inside its range,
\* the validator returns every field with its input value and the quality
\* score is 1.0.
C4_AllInRange ==
    (Validated /\ \A f \in FieldSet : InRange(f, RawFields[f]))
    => /\ \A f \in FieldSet : wSensor.values[f] = RawFields[f]
       /\ wSensor.data_quality[1] = wSensor.data_quality[2]

LocationCount ==
    Cardinality({k \in {"latitude", "longitude"} : wSensor.values[k].kind # "null"})

\* C4 as amended: when every recognized field is a number inside its range,
\* the validator returns every field with its input value, and the quality
\* score is the share of non-null entries among the nine validated entries,
\* the seven fields and latitude and longitude: 1.0 exactly when the payload
\* also has a location with lat and lon, 7/9 when it has no location.
C4_AllInRangeOfNine ==
    (Validated /\ \A f \in FieldSet : InRange(f, RawFields[f]))
    => /\ \A f \in FieldSet : wSensor.values[f] = RawFields[f]
       /\ wSensor.data_quality = <<Cardinality(FieldSet) + LocationCount, Cardinality(FieldSet) + 2>>
       /\ wMsg.payload.data.location.isdict =>
             /\ wSensor.values["latitude"] = wMsg.payload.data.location.lat
             /\ wSensor.values["longitude"] = wMsg.payload.data.location.lon
       /\ ~wMsg.payload.data.location.isdict => LocationCount = 0

\* Every field is in range, temperature at the upper end of its range, and
\* the location is complete: the score is 9/9.
C4_Witness ==
    /\ Validated
    /\ \A f \in FieldSet : InRange(f, RawFields[f])
    /\ RawFields["temperature"] = Num(600)
    /\ wSensor.values["temperature"] = Num(600)
    /\ wSensor.data_quality = <<9, 9>>

RuleSeverity(f, x) ==
    CASE f = "temperature" ->
            IF x < 50 \/ x > 400 THEN "critical"
            ELSE IF (50 <= x /\ x < 100) \/ (350 < x /\ x <= 400) THEN "warning"
            ELSE "none"
      [] f = "soil_moisture" ->
            IF x < 200 THEN "critical"
            ELSE IF (200 <= x /\ x < 300) \/ x > 800 THEN "warning"
            ELSE "none"
      [] f = "ph_level" -> IF x < 55 \/ x > 80 THEN "warning" ELSE "none"
      [] f = "battery_level" ->
            IF x < 100 THEN "critical"
            ELSE IF 100 <= x /\ x < 200 THEN "warning"
            ELSE "none"
      [] OTHER -> "none"

\* The field an alert message is about.
FieldOfText(text) ==
    CASE text \in {"Critically low temperature", "Critically high temperature",
                   "Temperature out of optimal range"} -> "temperature"
      [] text \in {"Critical low soil moisture", "Low soil moisture",
                   "High soil moisture"} -> "soil_moisture"
      [] text = "pH level out of optimal range" -> "ph_level"
      [] text \in {"Critical low battery", "Low battery"} -> "battery_level"
      [] OTHER -> "none"

\* C6: for every normalized reading, each of temperature, soil_moisture,
\* ph_level and battery_level gets the alert the rule table gives it and no
\* other: one alert of the table's severity carrying the field's value when
\* a rule matches, none when no rule matches or the field is null; nothing
\* else is in the list, and when no insert failed the rows stored for the
\* message are these alerts.  So temperature = 4 alone gives exactly one
\* critical alert and temperature = 25 alone gives none.
C6_RuleTable ==
    Validated =>
      /\ \A f \in FieldSet :
           LET value == wSensor.values[f]
               mine == {i \in 1..Len(wAlerts) : FieldOfText(wAlerts[i].text) = f}
           IN IF value.kind = "null" \/ RuleSeverity(f, value.v) = "none"
              THEN mine = {}
              ELSE \E i \in mine :
                     /\ mine = {i}
                     /\ wAlerts[i].severity = RuleSeverity(f, value.v)
                     /\ wAlerts[i].value = value.v
      /\ \A i \in 1..Len(wAlerts) : FieldOfText(wAlerts[i].text) \in FieldSet
      /\ (wPc # "alert" /\ ~env.faulted) =>
           LET rows == {r \in alerts : r.msg = wMsg.n} IN
           /\ Cardinality(rows) = Len(wAlerts)
           /\ \A r \in rows : \E i \in 1..Len(wAlerts) :
                 /\ r.severity = wAlerts[i].severity
                 /\ r.message = [text |-> wAlerts[i].text, value |-> wAlerts[i].value]
                 /\ r.device_id = DeviceId(wMsg.topic)

\* A reading with temperature = 4 and nothing else has been processed: one
\* alert, critical, and one alert row in the store.
C6_Witness ==
    /\ Validated
    /\ wPc = "empty"
    /\ RawFields = [NoFields EXCEPT !["temperature"] = Num(40)]
    /\ Len(wAlerts) = 1
    /\ wAlerts[1].severity = "critical"
    /\ Cardinality(alerts) = 1


(***************************************************************************)
(* The running pipeline on a fresh database, on a host at any offset from  *)
(* UTC, with a store that may fail: one message in, through the worker, to *)
(* the export.                                                             *)
(***************************************************************************)
\* start_mqtt_client has returned True: the transport loop and the worker
\* thread run.
InitStarted ==
    /\ mainPc = "started"
    /\ netLoop = TRUE
    /\ running = TRUE
    /\ wPc = "while"
    /\ session = SessionUp
    /\ mainStats = NoStatistics
    /\ others = 0
    /\ data_queue = <<>>
    /\ stats = [messages_received |-> 0, messages_processed |-> 0,
                connection_status |-> "connected"]
    /\ delivered = 0
    /\ hist = NoHist

InitE2E ==
    /\ InitCommon
    /\ InitStarted
    /\ InitEmptyStore
    /\ tz \in TzOffsets
    /\ env = [NoEnv EXCEPT !.messages = MaxDeliveries, !.faults = MaxFailures,
                           !.hours = MaxHours]

NextE2E ==
    \/ OnMessage
    \/ OnMessagePut
    \/ WLoop
    \/ WDrain
    \/ WProcess
    \/ WStoreAlert
    \/ WGate
    \/ WCleanup
    \/ HourPasses

SpecE2E == InitE2E /\ [][NextE2E]_vars

(***************************************************************************)
(* The stop of a running manager: messages come in, the worker ticks, and  *)
(* stop_mqtt_client is called at any moment.  The worker thread is         *)
(* scheduled fairly.                                                       *)
(***************************************************************************)
InitStop ==
    /\ InitCommon
    /\ InitStarted
    /\ InitEmptyStore
    /\ tz = 0
    /\ env = [NoEnv EXCEPT !.messages = MaxDeliveries]

NextStop ==
    \/ StopFlag
    \/ StopJoin
    \/ OnMessage
    \/ OnMessagePut
    \/ WLoop
    \/ WExit
    \/ WDrain
    \/ WProcess
    \/ WStoreAlert
    \/ WGate
    \/ WCleanup

SpecStop == InitStop /\ [][NextStop]_vars /\ WF_vars(WorkerStep)

\* Once running is false the worker starts no tick, and once it has ended
\* it stays ended.
C15_NoNewTick ==
    /\ (~running /\ wPc = "while") => wPc' \in {"while", "stopped"}
    /\ wPc = "stopped" => wPc' = "stopped"

\* C15: after shutdown has set running to false the worker finishes its
\* tick and ends without starting another, and it does end once stop has
\* stopped the transport.
C15_StopEndsWorker ==
    /\ [][C15_NoNewTick]_vars
    /\ (mainPc = "stopped") ~> (wPc = "stopped")

\* The worker has ended and left in the queue a message that came in after
\* its last drain.
C15_Witness ==
    /\ wPc = "stopped"
    /\ data_queue # <<>>
    /\ mainPc = "stopped"


\* The one message of the run was the dev1 payload, it went through the
\* worker, and the store never raised.
Dev1Processed ==
    /\ delivered = 1
    /\ env.messages = 0
    /\ wMsg.n = 1
    /\ wMsg.topic = TopicDev1
    /\ wMsg.payload = PayloadDev1
    /\ stats.messages_processed = 1
    /\ ~env.faulted

\* An export ran after the reading of message 1 was stored, in the hour the
\* message came in.
ExportedSince == 1 \in hist.exportSaw /\ hist.exportAt = wMsg.timestamp - tz

\* C10: the dev1 payload (temperature 2, humidity 50, soil moisture 40, pH
\* 6.5) delivered on agri/sensors/dev1/data leaves, after the tick that
\* processes it, exactly one reading for dev1 and exactly one alert for dev1,
\* of severity critical, and dev1 is in the next JSON snapshot.
C10_EndToEnd ==
    Dev1Processed
    => /\ Cardinality({r \in sensor_data : r.device_id = "dev1"}) = 1
       /\ Cardinality({r \in alerts : r.device_id = "dev1"}) = 1
       /\ \A r \in alerts : r.device_id = "dev1" => r.severity = "critical"
       /\ ExportedSince =>
             /\ json_file.written
             /\ \E d \in json_file.devices : d.device_id = "dev1"

(***************************************************************************)
(* Properties of the alerts table and of the retention sweep, of the store *)
(* on its own.                                                             *)
(***************************************************************************)
\* The ids an acknowledge_alert step has newly marked.
NewlyAcked == hist'.acked \ hist.acked

\* An alert that stays in the table keeps every column but acknowledged, and
\* acknowledged never goes back to false; a new row never takes an id that
\* was in use.
C7_RowsKept ==
    \A q \in alerts' :
       IF \E r \in alerts : r.id = q.id
       THEN \E r \in alerts :
               /\ r = [q EXCEPT !.acknowledged = r.acknowledged]
               /\ r.acknowledged => q.acknowledged
       ELSE q.id > seqAlert

\* A call of acknowledge_alert marks at most one id, and leaves every other
\* row, and the set of rows, as they were.
C7_AckOnlyThatId ==
    AcknowledgeAlert
    => /\ Cardinality(NewlyAcked) <= 1
       /\ {q.id : q \in alerts'} = {r.id : r \in alerts}
       /\ \A r \in alerts : r.id \notin NewlyAcked => r \in alerts'
       /\ \A r \in alerts : r.id \in NewlyAcked =>
             [r EXCEPT !.acknowledged = TRUE] \in alerts'

\* C7: across inserts, acknowledge calls, retention sweeps and queries, the
\* acknowledged flag of an existing alert never changes from true to false,
\* acknowledge(id) changes only the acknowledged flag of the alert with that
\* id, and no operation changes any other column of an existing alert.
C7_AckMonotone == [][C7_RowsKept /\ C7_AckOnlyThatId]_vars

\* An alert was inserted, one was acknowledged by a call and is still in the
\* table next to one that is not acknowledged, and a sweep has deleted a row.
C7_Witness ==
    /\ seqAlert > Cardinality(SeedAges)
    /\ \E r \in alerts : r.id \in hist.acked /\ r.acknowledged
    /\ \E r \in alerts : ~r.acknowledged
    /\ cleanup_logged > 0

\* C8: after acknowledge(id) on an existing alert, that alert is absent from
\* every later get_active_alerts result, and acknowledging it again leaves
\* the store as it is.
C8_AckedAbsent ==
    /\ \A r \in hist.activeResult : r.id \notin hist.ackedAtQuery
    /\ \A id \in hist.acked : AcknowledgeUpdate(alerts, id) = alerts

\* An alert was acknowledged twice, and the query made after that returned
\* another alert while the acknowledged one was in the table.
C8_Witness ==
    /\ hist.activeResult # {}
    /\ \E r \in alerts :
          r.id \in hist.ackedAtQuery /\ r.id \in hist.reacked /\ r.acknowledged
    /\ ~env.faulted

\* How long ago a row was stored, in hours.  A reading carries the host's
\* local time of then, an alert the UTC time.
ReadingAge(r) == now - (r.timestamp - tz)
AlertAge(r) == now - r.timestamp

\* A sweep that committed.
SweepStep == CallCleanup /\ env' = Called

\* C9: after a retention sweep with the horizon of data_retention_days days,
\* neither table holds a row older than the horizon, and every row younger
\* than the horizon that was there before the sweep is still there.
C9_SweepExact ==
    [][SweepStep =>
          /\ \A r \in sensor_data' : ReadingAge(r) <= Horizon
          /\ \A r \in alerts' : AlertAge(r) <= Horizon
          /\ \A r \in sensor_data : ReadingAge(r) < Horizon => r \in sensor_data'
          /\ \A r \in alerts : AlertAge(r) < Horizon => r \in alerts']_vars

\* C20: the count a committed sweep logs is the number of rows it removed
\* from sensor_data and alerts together, and it logs nothing (a count of 0)
\* exactly when it removed no row.
C20_CountIsTotal ==
    [][SweepStep =>
          cleanup_logged' = Cardinality(sensor_data \ sensor_data')
                              + Cardinality(alerts \ alerts')]_vars

\* C19: a tick runs drain, export, sweep in that order.  The worker comes
\* to the export test only from a drain that found the queue empty, to the
\* sweep only from the export test, and to the next tick only from the
\* sweep.  The export runs exactly when more than csv_update_interval has
\* passed since the last one: then both writers run (each writes its file
\* when its query has rows and it does not fail) and the reference time is
\* reset; otherwise neither file nor the reference time changes.  The sweep
\* runs in every tick, after an export or without one, and rows are deleted
\* by no other step.
C19_TickOrder ==
    [][ /\ (wPc' = "gate" /\ wPc # "gate") =>
              /\ wPc \in {"while", "empty"}
              /\ data_queue = <<>>
        /\ (wPc' = "cleanup" /\ wPc # "cleanup") =>
              /\ wPc = "gate"
              /\ IF sinceExport > csv_update_interval
                 THEN /\ sinceExport' = 0
                      /\ hist'.exportAt = now
                      /\ env' = env =>
                            /\ csv_file' = IF \E rows \in CsvRows : rows # {}
                                           THEN [written |-> TRUE, rows |-> csv_file'.rows]
                                           ELSE csv_file
                            /\ csv_file'.written => csv_file'.rows \in CsvRows
                            /\ RecentRows # {} =>
                                  /\ json_file'.written
                                  /\ \E rows \in LatestPerDevice :
                                        json_file'.devices = {DeviceData(r) : r \in rows}
                            /\ RecentRows = {} => json_file' = json_file
                 ELSE UNCHANGED <<sinceExport, fileVars, hist>>
        /\ (wPc' = "while" /\ wPc # "while") =>
              /\ wPc = "cleanup"
              /\ \/ /\ env' = env
                    /\ sensor_data' = Sweep(sensor_data)
                    /\ alerts' = Sweep(alerts)
                 \/ /\ env'.faults < env.faults
                    /\ UNCHANGED <<sensor_data, alerts>>
        /\ fileVars' # fileVars => wPc = "gate"
        /\ (\E r \in sensor_data \cup alerts : r \notin sensor_data' \cup alerts')
              => wPc = "cleanup"
      ]_vars

\* The export has just run in a tick, once the interval had passed, and
\* written both files; the sweep of the same tick comes next.
C19_Witness ==
    /\ wPc = "cleanup"
    /\ sinceExport = 0
    /\ hist.exportAt > 0
    /\ csv_file.written
    /\ json_file.written

(***************************************************************************)
(* A batch through the message processor.  The manager is running, the     *)
(* callback has queued a batch of messages and the transport delivers no   *)
(* more; the worker drains the queue, one step of _process_sensor_message  *)
(* at a time, and an insert may fail.                                      *)
(***************************************************************************)
BatchInputs ==
    Inputs \cup
      { [topic |-> TopicDev1, payload |-> JsonArray],
        [topic |-> TopicDev1, payload |-> PayloadCalm],
        [topic |-> TopicDev2, payload |-> PayloadAllBad] }

Batches == UNION {[1..k -> BatchInputs] : k \in 1..QueueMaxSize}

\* The queue _on_message has built from the deliveries b.
Queued(b) ==
    [i \in 1..Len(b) |->
        [n |-> i, topic |-> b[i].topic, payload |-> b[i].payload,
         timestamp |-> LocalNow]]

InitBatch ==
    /\ InitCommon
    /\ InitEmptyStore
    /\ mainPc = "started"
    /\ netLoop = TRUE
    /\ running = TRUE
    /\ wPc = "while"
    /\ session = SessionUp
    /\ mainStats = NoStatistics
    /\ others = 0
    /\ tz = 0
    /\ \E b \in Batches :
          /\ data_queue = Queued(b)
          /\ stats = [messages_received |-> Len(b), messages_processed |-> 0,
                      connection_status |-> "connected"]
          /\ delivered = Len(b)
          /\ hist = [NoHist EXCEPT !.accepted = Ns(Queued(b)), !.batch = Queued(b)]
    /\ env = [NoEnv EXCEPT !.faults = MaxFailures]

NextBatch ==
    \/ WLoop
    \/ WDrain
    \/ WValidate
    \/ WInsert
    \/ WEvaluate
    \/ WStoreAlert

SpecBatch == InitBatch /\ [][NextBatch]_vars

\* The payload parses to a dict.
WellFormed(m) == json_loads(m.payload).ok
Good(batch) == SelectSeq(batch, WellFormed)
SensorOf(m) == validate_sensor_data(json_loads(m.payload).data)
AlertsOf(m) == check_alert_conditions(SensorOf(m).values)

\* The number of alerts of the messages before the i-th.
RECURSIVE AlertsBefore(_, _)
AlertsBefore(good, i) ==
    IF i = 1 THEN 0 ELSE AlertsBefore(good, i - 1) + Len(AlertsOf(good[i - 1]))

\* The tables a batch of well-formed messages leaves in an empty store when
\* no insert fails.
ExpectedReadings(good) ==
    {ReadingRow(i, good[i], DeviceId(good[i].topic), SensorOf(good[i]))
        : i \in 1..Len(good)}
ExpectedAlerts(good) ==
    UNION {{AlertRow(AlertsBefore(good, i) + j, DeviceId(good[i].topic),
                     AlertsOf(good[i])[j], good[i].n)
               : j \in 1..Len(AlertsOf(good[i]))}
              : i \in 1..Len(good)}

\* The drain of the batch has ended.
BatchDone == wPc = "gate"

\* C11: a message whose payload does not parse stores no reading and no
\* alert; when the drain ends every queued message has been taken, every
\* well-formed one is counted as processed, and the tables are what the
\* well-formed messages alone leave, less one row for each insert that
\* failed.
C11_MalformedIsolated ==
    /\ \A i \in 1..Len(hist.batch) :
          ~WellFormed(hist.batch[i]) =>
             /\ \A r \in sensor_data : r.msg # i
             /\ \A r \in alerts : r.msg # i
    /\ BatchDone =>
          /\ data_queue = <<>>
          /\ hist.taken = Ns(hist.batch)
          /\ stats.messages_processed = Len(Good(hist.batch))
          /\ ~env.faulted =>
                /\ sensor_data = ExpectedReadings(Good(hist.batch))
                /\ alerts = ExpectedAlerts(Good(hist.batch))
          /\ Cardinality(sensor_data) + Cardinality(alerts) + (MaxFailures - env.faults)
                = Cardinality(ExpectedReadings(Good(hist.batch)))
                    + Cardinality(ExpectedAlerts(Good(hist.batch)))

\* A batch of a malformed message followed by a well-formed one has been
\* drained, and the reading of the second is the store's first row.
C11_Witness ==
    /\ BatchDone
    /\ Len(hist.batch) = 2
    /\ ~WellFormed(hist.batch[1])
    /\ \E r \in sensor_data : r.msg = 2 /\ r.id = 1
    /\ alerts # {}
    /\ ~env.faulted

\* The worker leaves a message it cannot parse.
Discard ==
    /\ wPc = "process"
    /\ ~WellFormed(wMsg)
    /\ wPc' # wPc

\* C12 as claimed: a discarded payload adds one to a counter.
C12_ErrorCounter ==
    [][Discard =>
         \E k \in {"messages_received", "messages_processed"} :
            stats'[k] = stats[k] + 1]_vars

\* C12 as amended: a discarded payload is only logged; no counter of the
\* statistics changes, so the message stays counted in messages_received
\* and is never counted in messages_processed, and the store is untouched.
C12_DiscardOnlyLogs ==
    [][Discard => /\ stats' = stats
                  /\ storeVars' = storeVars
                  /\ wPc' = "empty"]_vars

\* A malformed message has been discarded: received, not processed.
C12_Witness ==
    /\ wPc = "empty"
    /\ wMsg # NoMsg
    /\ ~WellFormed(wMsg)
    /\ stats.messages_received = Len(hist.batch)
    /\ stats.messages_processed = 0

\* The fields the alert rules read.
RuleFields == {"temperature", "soil_moisture", "ph_level", "battery_level"}

\* The fields of message m whose validated value matches a rule.
Matching(m) ==
    {f \in RuleFields :
        /\ SensorOf(m).values[f].kind = "num"
        /\ RuleSeverity(f, SensorOf(m).values[f].v) # "none"}

\* The worker is through with message i of the batch.
Finished(i) ==
    /\ i <= Len(hist.taken)
    /\ i = Len(hist.taken) => wPc \in {"empty", "gate"}

\* What an alert row says, without its id.
AlertSays(r) == <<r.device_id, r.severity, r.message>>

\* C17: when no insert failed, the alert rows of a processed reading are
\* one for each field among temperature, soil_moisture, ph_level and
\* battery_level whose value matches a rule, at most one for a field, and
\* two messages with the same topic and payload get the same alerts,
\* whatever was processed between them.
C17_AlertPerField ==
    ~env.faulted =>
       \A i \in 1..Len(hist.batch) :
          (Finished(i) /\ WellFormed(hist.batch[i])) =>
             LET mine == {r \in alerts : r.msg = i}
             IN /\ Cardinality(mine) = Cardinality(Matching(hist.batch[i]))
                /\ \A f \in RuleFields :
                      Cardinality({r \in mine : FieldOfText(r.message.text) = f})
                         = IF f \in Matching(hist.batch[i]) THEN 1 ELSE 0
                /\ \A j \in 1..Len(hist.batch) :
                      ( /\ Finished(j)
                        /\ hist.batch[j].topic = hist.batch[i].topic
                        /\ hist.batch[j].payload = hist.batch[i].payload )
                      => {AlertSays(r) : r \in {q \in alerts : q.msg = j}}
                            = {AlertSays(r) : r \in mine}

\* The same reading with four violating fields came twice and left four
\* alerts each time.
C17_Witness ==
    /\ BatchDone
    /\ Len(hist.batch) = 2
    /\ hist.batch[1].payload = PayloadAllBad
    /\ hist.batch[2].payload = PayloadAllBad
    /\ Cardinality({r \in alerts : r.msg = 1}) = 4
    /\ Cardinality({r \in alerts : r.msg = 2}) = 4

\* C18: for each message the steps come in order.  The worker reaches the
\* insert only from the validation, with the validated reading of the
\* message in hand; a reading is inserted only by that step; the alerts are
\* evaluated only after the insert was attempted, succeeded or not, and on
\* that same validated reading; an alert is inserted only after the
\* evaluation; so an alert row is never older than the attempt to insert
\* its reading.
C18_StepOrder ==
    [][ /\ (wPc' = "store" /\ wPc # "store") =>
              /\ wPc = "process"
              /\ wSensor' = SensorOf(wMsg)
        /\ sensor_data' # sensor_data =>
              /\ wPc = "store"
              /\ sensor_data' \ sensor_data =
                    {ReadingRow(seqReading + 1, wMsg, wDevice, SensorOf(wMsg))}
        /\ (wPc' = "check" /\ wPc # "check") => wPc = "store"
        /\ (wPc' = "alert" /\ wPc # "alert") =>
              /\ wPc = "check"
              /\ wAlerts' = AlertsOf(wMsg)
        /\ alerts' # alerts =>
              /\ wPc = "alert"
              /\ \A r \in alerts' \ alerts : r.msg = wMsg.n
              /\ (\E r \in sensor_data : r.msg = wMsg.n) \/ env.faulted
      ]_vars

\* The reading of the message in hand is stored and its first alert too.
C18_Witness ==
    /\ wPc = "alert"
    /\ wIdx = 2
    /\ \E r \in sensor_data : r.msg = wMsg.n
    /\ \E r \in alerts : r.msg = wMsg.n

\* An insert raised in this step.
InsertFailed == env'.faults < env.faults

\* C22: an insert of a reading or of an alert that fails leaves both tables
\* and their id counters as they were and puts nothing back in the queue;
\* the worker does not try it again but goes on, from a reading to the
\* alert rules and from an alert to the next alert or the next message; and
\* when the drain ends every queued message has been taken and exactly one
\* row is missing for each failed insert.
C22_FailedInsertAbandoned ==
    /\ [][InsertFailed =>
            /\ storeVars' = storeVars
            /\ data_queue' = data_queue
            /\ wMsg' = wMsg
            /\ wPc \in {"store", "alert"}
            /\ wPc = "store" => wPc' = "check"
            /\ wPc = "alert" =>
                  /\ wIdx' = wIdx + 1
                  /\ wPc' = IF wIdx = Len(wAlerts) THEN "empty" ELSE "alert"]_vars
    /\ [](BatchDone =>
            /\ hist.taken = Ns(hist.batch)
            /\ Cardinality(sensor_data) + Cardinality(alerts)
                  + (MaxFailures - env.faults)
                  = Cardinality(ExpectedReadings(Good(hist.batch)))
                      + Cardinality(ExpectedAlerts(Good(hist.batch))))

\* The insert of the first reading of a batch of two failed: the reading is
\* not in the store, and the second message was processed and stored.
C22_Witness ==
    /\ BatchDone
    /\ env.faulted
    /\ Len(hist.batch) = 2
    /\ WellFormed(hist.batch[1])
    /\ \A r \in sensor_data : r.msg # 1
    /\ \E r \in sensor_data : r.msg = 2 /\ r.id = 1

\* C27: every alert row comes from a message whose reading is in the store.
C27_AlertHasReading ==
    \A a \in alerts : \E r \in sensor_data : r.msg = a.msg

(***************************************************************************)
(* Further properties of the validator and of the alert rules, for one     *)
(* queued message.                                                         *)
(***************************************************************************)
\* The score valid/total is a number from 0 to 1.
InUnit(q) == 0 <= q[1] /\ q[1] <= q[2] /\ q[2] > 0

\* C25: every stored reading, and every reading the validator returns, has
\* a data_quality from 0 to 1, whatever the payload: no recognized field,
\* values that are no numbers, a location structure.
C25_QualityInUnit ==
    /\ \A r \in sensor_data : InUnit(r.data_quality)
    /\ Validated => InUnit(wSensor.data_quality)

\* A reading with a value that is no number and with a location is stored.
C25_Witness ==
    \E r \in sensor_data :
       /\ \E f \in FieldSet : r.raw_json.data.fields[f] = Text
       /\ r.raw_json.data.location = Location(Num(125), Num(775))
       /\ r.data_quality = <<8, 9>>

\* The value is a number outside the range of the field, or no number.
FailsValidation(f, value) ==
    \/ value.kind = "text"
    \/ value.kind = "num" /\ ~InRange(f, value)

\* C28: a field whose value fails validation gets no alert: none in the
\* list the rules build and none in the alerts table.
C28_InvalidNoAlert ==
    Validated =>
       \A f \in RuleFields :
          FailsValidation(f, RawFields[f]) =>
             /\ wSensor.values[f] = Null
             /\ \A i \in 1..Len(wAlerts) : FieldOfText(wAlerts[i].text) # f
             /\ \A r \in alerts : FieldOfText(r.message.text) # f

\* A reading with temperature 60.1 and battery_level -0.1 went through and
\* left no alert.
C28_Witness ==
    /\ Validated
    /\ wPc = "empty"
    /\ RawFields["temperature"] = Num(601)
    /\ RawFields["battery_level"] = Num(0 - 1)
    /\ sensor_data # {}
    /\ alerts = {}

(***************************************************************************)
(* A manager that runs and is not stopped: messages come in as the         *)
(* transport pleases while the worker, scheduled fairly, ticks.            *)
(***************************************************************************)
\* The deliveries of such a run: one, and one more to arrive meanwhile.
RunMessages == MaxDeliveries + 1

InitRun ==
    /\ InitCommon
    /\ InitStarted
    /\ InitEmptyStore
    /\ tz = 0
    /\ env = [NoEnv EXCEPT !.messages = RunMessages]

NextRun ==
    \/ OnMessage
    \/ OnMessagePut
    \/ WLoop
    \/ WDrain
    \/ WProcess
    \/ WStoreAlert
    \/ WGate
    \/ WCleanup

SpecRun == InitRun /\ [][NextRun]_vars /\ WF_vars(WorkerStep)

\* The worker has taken message n out and is through with it.
Through(n) ==
    /\ n \in Range(hist.taken)
    /\ wMsg.n = n => wPc \notin {"process", "alert"}

\* C26: while the manager runs, every message put into the queue is
\* eventually taken out and processed, whatever else arrives meanwhile; a
\* message the worker is through with has its reading in the store when
\* its payload is well formed and has left nothing when it is not.
C26_AcceptedProcessed ==
    /\ \A n \in 1..RunMessages :
          (n \in Range(hist.accepted)) ~> Through(n)
    /\ []((wPc = "empty" /\ wMsg # NoMsg) =>
            IF WellFormed(wMsg)
            THEN \E r \in sensor_data : r.msg = wMsg.n
            ELSE \A r \in sensor_data \cup alerts : r.msg # wMsg.n)

\* The worker is through with a message that was put into the queue while
\* the message before it was being processed.
C26_Witness ==
    /\ Len(hist.taken) >= 2
    /\ Through(hist.taken[2])
    /\ Len(hist.drainStart) = 1
    /\ Len(hist.tickTaken) >= 2
    /\ \E r \in sensor_data : r.msg = hist.taken[2]

\* C30: messages_processed plus the length of the queue never exceeds
\* messages_received.  messages_received is the number of decoded messages:
\* the queued ones, the ones dropped on a full queue and the one the
\* callback is about to put; messages_processed is the number of messages
\* the worker is through with and whose processing raised nothing, which
\* are those that left a reading.
C30_CounterOrder ==
    /\ stats.messages_processed + Len(data_queue) <= stats.messages_received
    /\ stats.messages_received =
          Len(hist.accepted) + Cardinality(hist.dropped)
            + (IF cbPc = "put" THEN 1 ELSE 0)
    /\ stats.messages_processed =
          Cardinality({n \in Range(hist.taken) :
                          /\ Through(n)
                          /\ \E r \in sensor_data : r.msg = n})

\* A message was dropped on a full queue, one is processed and one is
\* still queued.
C30_Witness ==
    /\ hist.dropped # {}
    /\ data_queue # <<>>
    /\ stats.messages_processed = 1
    /\ stats.messages_received = MaxMessages
    /\ wPc = "empty"

\* An export that ran and did not fail.
ExportStep ==
    /\ wPc = "gate"
    /\ wPc' = "cleanup"
    /\ ExportIsDue
    /\ env' = env

\* The readings less than an hour old.
WithinLastHour == {r \in sensor_data : ReadingAge(r) < 1}

\* C21: after an export the JSON snapshot lists exactly the devices with a
\* reading within the last hour, each once, with the values of the newest
\* reading of the device.
C21_SnapshotReflects ==
    [][ExportStep =>
          /\ {d.device_id : d \in json_file'.devices}
                = {r.device_id : r \in WithinLastHour}
          /\ \A d \in json_file'.devices :
                \E r \in WithinLastHour :
                   /\ d = DeviceData(r)
                   /\ \A q \in WithinLastHour :
                         q.device_id = r.device_id => q.timestamp <= r.timestamp
          /\ \A d1, d2 \in json_file'.devices :
                d1.device_id = d2.device_id => d1 = d2]_vars

\* C29: once stop_mqtt_client has returned, no table, no id counter and no
\* export file changes, and no message leaves the queue.
C29_QuietAfterStop ==
    [][mainPc = "stopped" =>
          /\ storeVars' = storeVars
          /\ fileVars' = fileVars
          /\ data_queue' = data_queue]_vars

(***************************************************************************)
(* start_mqtt_client called again on the same manager, while it runs or    *)
(* after stop_mqtt_client.  Nothing in start_mqtt_client tests             *)
(* self.running or self.processing_thread, and stop_mqtt_client waits for  *)
(* the thread for five seconds only.                                       *)
(***************************************************************************)
\* How many further calls of start_mqtt_client one run makes.
MaxStarts == 2

\* The thread wPc follows is alive.
WorkerAlive == wPc \notin {"idle", "stopped"}

\* The threads that run _data_processing_loop.
LiveWorkers == others + (IF WorkerAlive THEN 1 ELSE 0)

\* start_mqtt_client on a manager that was started before: a new client is
\* made and connect() returns or raises; then loop_start(),
\* self.running = True and a new thread on _data_processing_loop.  wPc
\* follows the new thread when the earlier one has ended.
StartMqttClientAgain ==
    /\ mainPc \in {"started", "stopped"}
    /\ env.starts > 0
    /\ env' = [env EXCEPT !.starts = @ - 1]
    /\ \E connected \in BOOLEAN :
        IF connected
        THEN /\ mainPc' = "started"
             /\ netLoop' = TRUE
             /\ running' = TRUE
             /\ session' = NoSession
             /\ IF WorkerAlive
                THEN /\ others' = others + 1
                     /\ UNCHANGED <<wPc, sinceExport>>
                ELSE /\ wPc' = "while"
                     /\ sinceExport' = 0
                     /\ UNCHANGED others
        ELSE UNCHANGED <<mainPc, netLoop, running, session, others, wPc, sinceExport>>
    /\ UNCHANGED <<mainStats, data_queue, stats, cbVars, wMsg, wDevice, wSensor,
                   wAlerts, wIdx, storeVars, clockVars, fileVars, cleanup_logged,
                   delivered, hist>>

\* The rows _check_alert_conditions' list becomes in the alerts table.
AlertRows(device_id, list, n) ==
    {AlertRow(seqAlert + i, device_id, list[i], n) : i \in 1..Len(list)}

\* One pass of the inner loop in a further thread: get_nowait() and
\* _process_sensor_message, whose insert of the reading commits or raises.
OtherProcess ==
    /\ others > 0
    /\ data_queue # <<>>
    /\ data_queue' = Tail(data_queue)
    /\ hist' = [hist EXCEPT !.taken = Append(@, Head(data_queue).n)]
    /\ LET message == Head(data_queue)
           parsed == json_loads(message.payload)
           device_id == DeviceId(message.topic)
           sensor == validate_sensor_data(parsed.data)
           list == check_alert_conditions(sensor.values)
       IN IF ~parsed.ok
          THEN UNCHANGED <<stats, storeVars, env>>
          ELSE /\ \E ok \in Outcomes :
                     /\ StoreSensorData(message, device_id, sensor, ok)
                     /\ env' = After(env, ok)
               /\ alerts' = alerts \cup AlertRows(device_id, list, message.n)
               /\ seqAlert' = seqAlert + Len(list)
               /\ stats' = [stats EXCEPT !.messages_processed = @ + 1]
    /\ UNCHANGED <<lifeVars, cbVars, workerVars, sinceExport, clockVars, fileVars,
                   cleanup_logged, delivered>>

\* The rest of a tick in a further thread, once empty() is true: the two
\* exports when its own last_csv_update is old enough, then
\* _cleanup_old_data and the sleep.
OtherRest ==
    /\ others > 0
    /\ data_queue = <<>>
    /\ \E due \in BOOLEAN, okExport \in Outcomes, ok \in Outcomes :
         /\ env' = IF okExport /\ ok THEN env ELSE Fault
         /\ IF due /\ okExport
            THEN /\ \E rows \in CsvRows :
                      csv_file' = IF rows # {}
                                  THEN [written |-> TRUE, rows |-> rows]
                                  ELSE csv_file
                 /\ \E rows \in LatestPerDevice :
                      json_file' =
                         IF rows # {}
                         THEN [written |-> TRUE, timestamp |-> LocalNow,
                               devices |-> {DeviceData(r) : r \in rows}]
                         ELSE json_file
            ELSE UNCHANGED fileVars
         /\ CleanupOldData(ok)
    /\ UNCHANGED <<lifeVars, data_queue, stats, cbVars, workerVars, sinceExport,
                   seqReading, seqAlert, clockVars, delivered, hist>>

\* while self.running: false, in a further thread.
OtherExit ==
    /\ others > 0
    /\ ~LoopTest
    /\ others' = others - 1
    /\ UNCHANGED <<mainPc, netLoop, running, mainStats, session, data_queue, stats,
                   cbVars, workerVars, sinceExport, storeVars, clockVars, fileVars,
                   cleanup_logged, delivered, env, hist>>

InitRestart ==
    /\ InitCommon
    /\ InitNotStarted
    /\ InitEmptyStore
    /\ tz = 0
    /\ env = [NoEnv EXCEPT !.messages = MaxDeliveries, !.connects = MaxConnects,
                           !.starts = MaxStarts]

NextRestart ==
    \/ StartMqttClient
    \/ StartMqttClientAgain
    \/ OnConnect
    \/ StopFlag
    \/ StopJoin
    \/ OnMessage
    \/ OnMessagePut
    \/ WLoop
    \/ WExit
    \/ WDrain
    \/ WProcess
    \/ WStoreAlert
    \/ WGate
    \/ WCleanup
    \/ OtherProcess
    \/ OtherRest
    \/ OtherExit

SpecRestart == InitRestart /\ [][NextRestart]_vars

\* C24: whatever start and stop calls were made, at most one thread runs
\* the worker loop and takes messages from the queue.
C24_SingleWorker == LiveWorkers <= 1

====
